---- MODULE Spec2Model ----
(***************************************************************************)
(* The VideoPlayer component of src/src/Context/Context.jsx (the variant   *)
(* of lines 829-1824): the feed loader, the cursor and the hash router,    *)
(* as a state machine over React's commit cycle.                           *)
(*                                                                         *)
(* An event handler or a promise continuation is one action; the state it  *)
(* sets is committed at the end of the action and the names of the changed *)
(* state are put in `dirty`.  While `dirty` is not empty the only enabled   *)
(* step is RunEffects, one pass of the useEffect bodies whose dependencies *)
(* changed, in the order the component declares them.                      *)
(*                                                                         *)
(* A feed's title and its feed key are identified (the code keys           *)
(* listofMedia by media.title and loadedFeeds by media.feed).              *)
(***************************************************************************)
EXTENDS Integers, Sequences, FiniteSets, Bags, TLC

\* ------------------------------------------------------------- bounds
\* items one successful response holds at most
MaxItems == 1
\* loadFeed calls in flight at the same time (user-started loads wait)
MaxInflight == 3
\* largest ref a user types into the fragment
MaxRef == 1
\* gestures of the user (clicks, fragment edits) in one run
MaxGestures == 1
\* click positions on the progress bar: ratio k / ClickDen, k in 0..ClickDen
ClickDen == 2
\* characters of a feed key written to the fragment
MaxKeyLen == 2
\* largest item index written to the fragment
MaxIndex == 10
MaxPlayCalls == 2

\* ------------------------------------------------------------- program constants
\* display cap of the progress bar
DisplayCap == 7
\* seconds an image is shown
imageDuration == 4
\* imageElapsed: its initial value, and the only value it is ever set to
imageElapsed == 0

\* ------------------------------------------------------------- the configured feeds
\* mediaList of the context: the configured feeds, in sheet order; urls is
\* the number of pipe-separated URLs of media.url.  No swiper and no
\* linkedvideo feed is configured, so processSwiperData and processVideoData
\* (lines 931-966) find no feed and load nothing.
DefaultMediaList ==
  << [feed |-> "nasa", urls |-> 1],
     [feed |-> "seeclickfix-311", urls |-> 2] >>

\* mediaList of the context (a prop of the player, it does not change)
VARIABLE mediaList

FeedKeys == { mediaList[k].feed : k \in 1..Len(mediaList) }

\* mediaList.indexOf(mediaList.find(m => m.feed.trim().toLowerCase() === feed)), -1 when none
FindFeed(feed) ==
  IF \E k \in 1..Len(mediaList) : mediaList[k].feed = feed
  THEN (CHOOSE k \in 1..Len(mediaList) : mediaList[k].feed = feed) - 1
  ELSE -1

NumUrls(f) == mediaList[FindFeed(f) + 1].urls

\* ------------------------------------------------------------- items
NullUrl == [feed |-> "", u |-> 0, i |-> 0, ext |-> ""]

NoDescription == [msg |-> "No description available", status |-> 0]

\* the i-th item of a successful response of URL u of feed f
MediaItem(f, u, i) ==
  [ url     |-> [feed |-> f, u |-> u, i |-> i, ext |-> "jpg"],
    text    |-> NoDescription,
    title   |-> [failed |-> FALSE, of |-> f],
    isError |-> FALSE ]

\* an optional value (null / undefined, or a value): <<>> or <<v>>
None == << >>
Some(v) == << v >>
\* the same item with the URL of a video file
VideoItem(f, u, i) ==
  [ url     |-> [feed |-> f, u |-> u, i |-> i, ext |-> "mp4"],
    text    |-> NoDescription,
    title   |-> [failed |-> FALSE, of |-> f],
    isError |-> FALSE ]

\* arr[i] of JavaScript, 0-based: undefined outside the array
At(arr, i) == IF i >= 0 /\ i < Len(arr) THEN Some(arr[i + 1]) ELSE None

\* ------------------------------------------------------------- fetch outcomes
Ok(n) == [ok |-> TRUE, n |-> n, status |-> 200, message |-> "", video |-> FALSE]
\* a response whose items are videos
OkVideo(n) == [ok |-> TRUE, n |-> n, status |-> 200, message |-> "", video |-> TRUE]
\* status 0: the error has no response (network error); message is error.message
Fail(status, message) ==
  [ok |-> FALSE, n |-> 0, status |-> status, message |-> message, video |-> FALSE]

Failures ==
  { Fail(429, "Request failed with status code 429"),
    Fail(400, "Request failed with status code 400"),
    Fail(500, "Request failed with status code 500"),
    Fail(0, "Network Error"),
    Fail(0, "") }

\* what the request of a URL can answer
Outcomes == { Ok(n) : n \in 0..MaxItems } \cup Failures

\* the answers drawn while the cursor and the router are exercised: every
\* length, and one failure
PlayerOutcomes == { Ok(n) : n \in 0..MaxItems } \cup { Fail(429, "Request failed with status code 429") }

RateLimitMsg ==
  [msg |-> "NASA API rate limit exceeded (429). Please use your own API key for more requests. See https://api.nasa.gov/ for details.",
   status |-> 0]
BadRequestMsg ==
  [msg |-> "Bad request (400): Please check your API key or feed URL.", status |-> 0]
UnknownMsg == [msg |-> "An unknown error occurred.", status |-> 0]

\* a catch block without the branch of status 400
ErrorMessageNo400(o) ==
  IF o.status # 0
  THEN IF o.status = 429 THEN RateLimitMsg
       ELSE [msg |-> "Request failed with status code", status |-> o.status]
  ELSE IF o.message # "" THEN [msg |-> o.message, status |-> 0]
       ELSE UnknownMsg

\* errorMessage of the catch block of fetchMediaFromAPI (lines 1205-1216);
\* the text of the placeholder is "Error: " followed by msg, and by the
\* status where status is not 0
ErrorMessage(o) ==
  IF o.status # 0
  THEN IF o.status = 429 THEN RateLimitMsg
       ELSE IF o.status = 400 THEN BadRequestMsg
       ELSE [msg |-> "Request failed with status code", status |-> o.status]
  ELSE IF o.message # "" THEN [msg |-> o.message, status |-> 0]
       ELSE UnknownMsg

\* the placeholder the catch block returns
ErrorItem(f, o) ==
  [ url     |-> NullUrl,
    text    |-> ErrorMessage(o),
    title   |-> [failed |-> TRUE, of |-> f],
    isError |-> TRUE ]

\* the array fetchMediaFromAPI resolves to for URL u of feed f when the
\* request answers o: the mapped items, or the one-element placeholder array
\* of the catch block
fetchMediaFromAPI(f, u, o) ==
  IF o.ok THEN [i \in 1..o.n |-> IF o.video THEN VideoItem(f, u, i) ELSE MediaItem(f, u, i)]
  ELSE << ErrorItem(f, o) >>

\* loadFeed, the merge of one URL's result into mediaItems (line 1087)
MergeItems(acc, items) == acc \o items

\* ------------------------------------------------------------- the fragment
\* window.location.hash: feed ("" when absent), ref (None when absent or not
\* a number), other: a parameter besides feed and ref is present
HashRefs == { None } \cup { Some(r) : r \in (-1)..MaxRef }

\* the fragments the page is opened with: none, or a configured feed
InitialHashes ==
  { [feed |-> "", ref |-> None, other |-> TRUE] }
    \cup [feed : FeedKeys, ref : HashRefs, other : {TRUE}]

\* the fragments the user navigates to: a configured feed, or an unknown one
TypedHashes ==
  { [feed |-> "bogus", ref |-> None, other |-> TRUE] }
    \cup [feed : FeedKeys, ref : HashRefs, other : {TRUE}]

\* parseHash
parseHash(h) == [feed |-> h.feed, ref |-> IF h.ref = None THEN 0 ELSE h.ref[1]]

\* an updateURLHash that rewrites the feed alone
updateURLHashKeepsRef(h, feed, ref) == [feed |-> feed, ref |-> h.ref, other |-> h.other]

\* updateURLHash: feed and ref rewritten, the other parameters kept
updateURLHash(h, feed, ref) == [feed |-> feed, ref |-> Some(ref), other |-> h.other]

\* ------------------------------------------------------------- the fragment as text
\* Text is a sequence of one-character strings.  The characters modelled
\* are letters, digits, "-" and the characters of Reserved; a percent code
\* that is not one of PctCode is left as it is by the decoder.
Digits == << "0", "1", "2", "3", "4", "5", "6", "7", "8", "9" >>

IsDigit(c) == \E i \in 1..Len(Digits) : Digits[i] = c

DigitValue(c) == (CHOOSE i \in 1..Len(Digits) : Digits[i] = c) - 1

\* the characters encodeURIComponent escapes, and their percent codes
PctCode ==
  [ c \in {"&", "=", "+", " ", "%", "#"} |->
      CASE c = "&" -> << "2", "6" >>
        [] c = "=" -> << "3", "D" >>
        [] c = "+" -> << "2", "B" >>
        [] c = " " -> << "2", "0" >>
        [] c = "%" -> << "2", "5" >>
        [] c = "#" -> << "2", "3" >> ]

Reserved == DOMAIN PctCode

\* a fragment writer that does not escape the key
encodeNothing(t) == t

RECURSIVE encodeURIComponent(_)
encodeURIComponent(t) ==
  IF t = << >> THEN << >>
  ELSE (IF Head(t) \in Reserved THEN << "%" >> \o PctCode[Head(t)] ELSE << Head(t) >>)
         \o encodeURIComponent(Tail(t))

\* the application/x-www-form-urlencoded serializer of URLSearchParams:
\* a space becomes "+", the other reserved characters a percent code
RECURSIVE FormEncode(_)
FormEncode(t) ==
  IF t = << >> THEN << >>
  ELSE (IF Head(t) = " " THEN << "+" >>
        ELSE IF Head(t) \in Reserved THEN << "%" >> \o PctCode[Head(t)]
        ELSE << Head(t) >>)
         \o FormEncode(Tail(t))

\* the decoder of URLSearchParams: "+" is a space, a percent code its character
RECURSIVE FormDecode(_)
FormDecode(t) ==
  IF t = << >> THEN << >>
  ELSE IF Head(t) = "+" THEN << " " >> \o FormDecode(Tail(t))
  ELSE IF /\ Head(t) = "%"
          /\ Len(t) >= 3
          /\ \E c \in Reserved : PctCode[c] = << t[2], t[3] >>
       THEN << CHOOSE c \in Reserved : PctCode[c] = << t[2], t[3] >> >>
              \o FormDecode(SubSeq(t, 4, Len(t)))
  ELSE << Head(t) >> \o FormDecode(Tail(t))

\* String.prototype.split on a one-character separator
RECURSIVE Split(_, _)
Split(t, sep) ==
  IF \E i \in 1..Len(t) : t[i] = sep
  THEN LET i == CHOOSE j \in 1..Len(t) : t[j] = sep /\ \A k \in 1..(j - 1) : t[k] # sep
       IN  << SubSeq(t, 1, i - 1) >> \o Split(SubSeq(t, i + 1, Len(t)), sep)
  ELSE << t >>

\* String.prototype.includes
Includes(t, w) ==
  \E i \in 0..(Len(t) - Len(w)) : SubSeq(t, i + 1, i + Len(w)) = w

\* one name=value piece of a query string
ParsePair(piece) ==
  LET parts == Split(piece, "=")
      name  == parts[1]
      value == SubSeq(piece, Len(name) + 2, Len(piece))
  IN  [name |-> FormDecode(name), value |-> FormDecode(value)]

RECURSIVE ParsePieces(_)
ParsePieces(pieces) ==
  IF pieces = << >> THEN << >>
  ELSE (IF Head(pieces) = << >> THEN << >> ELSE << ParsePair(Head(pieces)) >>)
         \o ParsePieces(Tail(pieces))

\* new URLSearchParams(text): the list of the name/value pairs
URLSearchParams(t) == ParsePieces(Split(t, "&"))

\* URLSearchParams.get: the value of the first pair of that name, or null
ParamsGet(params, name) ==
  IF \E i \in 1..Len(params) : params[i].name = name
  THEN Some(params[CHOOSE i \in 1..Len(params) :
                     params[i].name = name /\ \A k \in 1..(i - 1) : params[k].name # name].value)
  ELSE None

\* URLSearchParams.set: the first pair of that name takes the value and the
\* later ones are removed; a new name is appended
ParamsSet(params, name, value) ==
  IF \E i \in 1..Len(params) : params[i].name = name
  THEN LET first == CHOOSE i \in 1..Len(params) :
                      params[i].name = name /\ \A k \in 1..(i - 1) : params[k].name # name
           keep(i) == i = first \/ params[i].name # name
           RECURSIVE Walk(_)
           Walk(i) ==
             IF i > Len(params) THEN << >>
             ELSE (IF ~keep(i) THEN << >>
                   ELSE IF i = first THEN << [name |-> name, value |-> value] >>
                   ELSE << params[i] >>) \o Walk(i + 1)
       IN  Walk(1)
  ELSE Append(params, [name |-> name, value |-> value])

\* URLSearchParams.toString
RECURSIVE ParamsToString(_)
ParamsToString(params) ==
  IF params = << >> THEN << >>
  ELSE FormEncode(Head(params).name) \o << "=" >> \o FormEncode(Head(params).value)
         \o (IF Len(params) > 1 THEN << "&" >> ELSE << >>)
         \o ParamsToString(Tail(params))

\* `${n}` of an integer
RECURSIVE ToDecimal(_)
ToDecimal(n) ==
  IF n < 10 THEN << Digits[n + 1] >>
  ELSE Append(ToDecimal(n \div 10), Digits[(n % 10) + 1])

NumberToString(n) == IF n < 0 THEN << "-" >> \o ToDecimal(0 - n) ELSE ToDecimal(n)

RECURSIVE DigitPrefix(_)
DigitPrefix(t) ==
  IF t # << >> /\ IsDigit(Head(t)) THEN << Head(t) >> \o DigitPrefix(Tail(t)) ELSE << >>

RECURSIVE DecimalValue(_, _)
DecimalValue(acc, t) ==
  IF t = << >> THEN acc ELSE DecimalValue(10 * acc + DigitValue(Head(t)), Tail(t))

RECURSIVE DropSpaces(_)
DropSpaces(t) == IF t # << >> /\ Head(t) = " " THEN DropSpaces(Tail(t)) ELSE t

\* parseInt(v, 10) of an optional text: None is NaN
parseInt(v) ==
  IF v = None THEN None
  ELSE LET t    == DropSpaces(v[1])
           neg  == t # << >> /\ Head(t) = "-"
           body == IF t # << >> /\ Head(t) \in {"-", "+"} THEN Tail(t) ELSE t
           ds   == DigitPrefix(body)
       IN  IF ds = << >> THEN None
           ELSE Some(IF neg THEN 0 - DecimalValue(0, ds) ELSE DecimalValue(0, ds))

\* the text after the leading "#" (hash.substring(1), hash.replace(/^#/, ''))
AfterHashSign(frag) == IF frag # << >> /\ Head(frag) = "#" THEN Tail(frag) ELSE frag

\* the getter of window.location.hash after the value v is assigned to it
AssignHash(v) ==
  LET body == AfterHashSign(v)
  IN  IF body = << >> THEN << >> ELSE << "#" >> \o body

FeedName == << "f", "e", "e", "d" >>
RefName == << "r", "e", "f" >>

\* parseHash on the text of the fragment (lines 892-899)
parseHashText(frag) ==
  LET params == URLSearchParams(AfterHashSign(frag))
      f == ParamsGet(params, FeedName)
      r == parseInt(ParamsGet(params, RefName))
  IN  [ feed |-> IF f = None THEN << >> ELSE f[1],
        ref  |-> IF r = None THEN 0 ELSE r[1] ]

\* otherParams of updateURLHash (lines 876-883)
RECURSIVE OtherParams(_, _)
OtherParams(existing, acc) ==
  IF existing = << >> THEN acc
  ELSE OtherParams(Tail(existing),
                   IF Head(existing).name \in {FeedName, RefName} THEN acc
                   ELSE ParamsSet(acc, Head(existing).name, Head(existing).value))

\* updateURLHash on the text of the fragment (lines 875-890): the fragment
\* after the call
updateURLHashText(frag, feed, ref) ==
  LET others == ParamsToString(OtherParams(URLSearchParams(AfterHashSign(frag)), << >>))
      base   == << "#" >> \o FeedName \o << "=" >> \o encodeURIComponent(feed)
                  \o << "&" >> \o RefName \o << "=" >> \o NumberToString(ref)
  IN  AssignHash(IF others # << >> THEN base \o << "&" >> \o others ELSE base)

\* ------------------------------------------------------------- the feed specification string
\* the hosts detectFeedType looks for
NasaHost == << "a", "p", "i", ".", "n", "a", "s", "a", ".", "g", "o", "v" >>
SeeClickFixHost == << "s", "e", "e", "c", "l", "i", "c", "k", "f", "i", "x", ".", "c", "o", "m" >>
BskyHost == << "b", "s", "k", "y", ".", "a", "p", "p" >>
SheetHost == << "d", "o", "c", "s", ".", "g", "o", "o", "g", "l", "e", ".", "c", "o", "m",
                "/", "s", "p", "r", "e", "a", "d", "s", "h", "e", "e", "t", "s" >>

\* the feed types detectFeedType returns
nasa == << "n", "a", "s", "a" >>
seeclickfix == << "s", "e", "e", "c", "l", "i", "c", "k", "f", "i", "x" >>
bsky == << "b", "s", "k", "y" >>
googlesheet == << "g", "o", "o", "g", "l", "e", "s", "h", "e", "e", "t" >>
default == << "d", "e", "f", "a", "u", "l", "t" >>

\* detectFeedType: the first host the URL includes decides
detectFeedType(url) ==
  IF Includes(url, NasaHost) THEN nasa
  ELSE IF Includes(url, SeeClickFixHost) THEN seeclickfix
  ELSE IF Includes(url, BskyHost) THEN bsky
  ELSE IF Includes(url, SheetHost) THEN googlesheet
  ELSE default

\* String.prototype.trim
RECURSIVE trim(_)
trim(t) ==
  IF t = << >> THEN << >>
  ELSE IF Head(t) = " " THEN trim(Tail(t))
  ELSE IF t[Len(t)] = " " THEN trim(SubSeq(t, 1, Len(t) - 1))
  ELSE t

\* a property name that is an array index: Object.keys lists these first, in
\* ascending order, and the other names after them in insertion order
IsArrayIndex(key) ==
  /\ key # << >>
  /\ \A i \in 1..Len(key) : IsDigit(key[i])
  /\ Len(key) = 1 \/ key[1] # "0"

\* acc[key] = value on an object held as the list of its own properties in
\* the order Object.keys enumerates them
ObjectSet(acc, key, value) ==
  IF \E i \in 1..Len(acc) : acc[i].key = key
  THEN LET i == CHOOSE j \in 1..Len(acc) : acc[j].key = key
       IN  [acc EXCEPT ![i] = [key |-> key, value |-> value]]
  ELSE LET before(i) == /\ IsArrayIndex(acc[i].key)
                        /\ \/ ~IsArrayIndex(key)
                           \/ DecimalValue(0, acc[i].key) < DecimalValue(0, key)
           n == Cardinality({ i \in 1..Len(acc) : before(i) })
       IN  SubSeq(acc, 1, n) \o << [key |-> key, value |-> value] >>
             \o SubSeq(acc, n + 1, Len(acc))

\* Object.keys
ObjectKeys(obj) == [i \in 1..Len(obj) |-> obj[i].key]

\* the reducer of buildFeedMap of the keyed card grid: const [key, url] =
\* entry.split('='); if (key && url) acc[key.trim()] = url.trim()
RECURSIVE buildFeedMapFrom(_, _)
buildFeedMapFrom(entries, acc) ==
  IF entries = << >> THEN acc
  ELSE LET parts == Split(Head(entries), "=")
           key   == parts[1]
           url   == IF Len(parts) >= 2 THEN parts[2] ELSE << >>
       IN  buildFeedMapFrom(Tail(entries),
             IF key # << >> /\ url # << >> THEN ObjectSet(acc, trim(key), trim(url))
             ELSE acc)

\* buildFeedMap of the keyed card grid
buildFeedMap(spec) == buildFeedMapFrom(Split(spec, "|"), << >>)

\* the reducer of buildFeedMap of the typed card grid: acc[type] = url.trim()
RECURSIVE buildFeedMapByTypeFrom(_, _)
buildFeedMapByTypeFrom(entries, acc) ==
  IF entries = << >> THEN acc
  ELSE buildFeedMapByTypeFrom(Tail(entries),
         ObjectSet(acc, detectFeedType(trim(Head(entries))), trim(Head(entries))))

\* buildFeedMap of the typed card grid
buildFeedMapByType(spec) == buildFeedMapByTypeFrom(Split(spec, "|"), << >>)

\* the list of URLs of the card grid that fetches every feed:
\* feedUrls.split('|').map(url => url.trim()).filter(url => url)
RECURSIVE trimmedSegments(_)
trimmedSegments(entries) ==
  IF entries = << >> THEN << >>
  ELSE (IF trim(Head(entries)) # << >> THEN << trim(Head(entries)) >> ELSE << >>)
         \o trimmedSegments(Tail(entries))

\* url.match(/\/d\/(.*?)(\/|$)/): None when there is no match, else the
\* first group, the text between the leftmost "/d/" and the next "/" or the end
SheetIdStart(url) ==
  CHOOSE i \in 1..(Len(url) - 2) :
    /\ SubSeq(url, i, i + 2) = << "/", "d", "/" >>
    /\ \A j \in 1..(i - 1) : SubSeq(url, j, j + 2) # << "/", "d", "/" >>

matchSheetId(url) ==
  IF Includes(url, << "/", "d", "/" >>)
  THEN Some(Split(SubSeq(url, SheetIdStart(url) + 3, Len(url)), "/")[1])
  ELSE None

\* `https://docs.google.com/spreadsheets/d/${id}/gviz/tq?tqx=out:csv`
gvizCsvUrl(id) ==
  << "h", "t", "t", "p", "s", ":", "/", "/" >> \o SheetHost \o << "/", "d", "/" >> \o id
    \o << "/", "g", "v", "i", "z", "/", "t", "q", "?", "t", "q", "x", "=", "o", "u", "t", ":", "c", "s", "v" >>

PubForm == << "/", "p", "u", "b", "?" >>
GvizForm == << "/", "g", "v", "i", "z", "/", "t", "q", "?" >>

\* processGoogleSheetUrl of the card grid that fetches every feed
processGoogleSheetUrl(url) ==
  IF Includes(url, PubForm) \/ Includes(url, GvizForm) THEN url
  ELSE LET matches == matchSheetId(url)
       IN  IF matches # None /\ matches[1] # << >> THEN gvizCsvUrl(matches[1]) ELSE url

\* the rewrite written out in fetchFeeds of the keyed and the typed card grid
rewriteSheetUrl(url) ==
  IF ~Includes(url, GvizForm)
  THEN LET matches == matchSheetId(url)
       IN  IF matches # None /\ matches[1] # << >> THEN gvizCsvUrl(matches[1]) ELSE url
  ELSE url

\* ------------------------------------------------------------- raw items and adapters
\* A raw item of a response: id is the URL it came from and its position in
\* the response, has the names of the fields it carries.  "image_full" and
\* "representative_image_url" are the fields of the media object and are
\* carried only by an item that has one.  A field that is present holds a
\* non-empty string.
MediaFields == { "media", "image_full", "representative_image_url" }

ItemFields ==
  { "title", "summary", "description", "explanation", "content", "url", "hdurl",
    "html_url", "link", "date", "created_at", "pubDate", "media_type" }

RawItem(u, i, has) == [id |-> << u, i >>, has |-> has]

\* item.field: undefined when the item does not have the field
Field(item, f) == IF f \in item.has THEN Some([of |-> item.id, field |-> f]) ELSE None

\* a string the code writes out
Lit(s) == Some([of |-> << 0, 0 >>, field |-> s])

\* a || b of two values that are undefined or non-empty strings
Or(a, b) == IF a # None THEN a ELSE b

\* item.media.image_full || item.media.representative_image_url
mediaImage(item) == Or(Field(item, "image_full"), Field(item, "representative_image_url"))

TypeErrorMsg == "Error: Cannot read properties of undefined (reading 'image_full')"

\* the callback of response.data.issues.map of the feed seeclickfix-311
\* (Context.jsx lines 1144-1148); reading item.media.image_full of an item
\* without a media object throws a TypeError
issueToMedia(item) ==
  [ url     |-> mediaImage(item),
    text    |-> Or(Field(item, "description"), Lit("No description available")),
    title   |-> Field(item, "summary"),
    isError |-> FALSE ]

\* the callback of the default case (lines 1198-1202)
apodToMedia(item) ==
  [ url     |-> Or(Field(item, "hdurl"), Field(item, "url")),
    text    |-> Or(Field(item, "explanation"), Lit("No description available")),
    title   |-> Field(item, "title"),
    isError |-> FALSE ]

\* the placeholder array of the catch block for an error without a response
\* (lines 1204-1224); text is "Error: " followed by error.message
caughtPlaceholder(message) ==
  << [ url     |-> None,
       text    |-> Lit(message),
       title   |-> Lit("Failed to load"),
       isError |-> TRUE ] >>

\* what fetchMediaFromAPI resolves to for a response of the feed: the mapped
\* items, or the placeholder when a callback throws
adaptResponse(feed, data) ==
  IF feed = "seeclickfix-311"
  THEN IF \E k \in 1..Len(data) : "media" \notin data[k].has
       THEN caughtPlaceholder(TypeErrorMsg)
       ELSE [k \in 1..Len(data) |-> issueToMedia(data[k])]
  ELSE [k \in 1..Len(data) |-> apodToMedia(data[k])]

\* processFeedItem of the card grid that fetches every feed
\* (src/unnamed/part_000 lines 27-70); in the default case feedFields names
\* every field (lines 61-64)
processFeedItem(item, type) ==
  IF type = "nasa"
  THEN [ title       |-> Field(item, "title"),
         description |-> Field(item, "explanation"),
         url         |-> Field(item, "url"),
         date        |-> Field(item, "date"),
         media_type  |-> Field(item, "media_type"),
         source      |-> Lit("NASA APOD") ]
  ELSE IF type = "seeclickfix"
  THEN [ title       |-> Or(Field(item, "summary"), Field(item, "title")),
         description |-> Field(item, "description"),
         url         |-> Or(Field(item, "html_url"), Field(item, "url")),
         date        |-> Or(Field(item, "created_at"), Field(item, "date")),
         media_type  |-> Lit("text"),
         source      |-> Lit("SeeClickFix") ]
  ELSE IF type = "bsky"
  THEN [ title       |-> Field(item, "title"),
         description |-> Or(Field(item, "content"), Field(item, "description")),
         url         |-> Or(Field(item, "link"), Field(item, "url")),
         date        |-> Or(Field(item, "pubDate"), Field(item, "date")),
         media_type  |-> Lit("text"),
         source      |-> Lit("BlueSky") ]
  ELSE [f \in ItemFields \cup MediaFields \cup {"source"} |->
          IF f = "source" THEN Lit("sourceUrl") ELSE Field(item, f)]

\* the object built from a row of the CSV, every header a field
\* (row[index]?.trim() || '', lines 139-145), assigned to the processed item
\* by the default case
sheetItem(row) ==
  [f \in ItemFields \cup {"source"} |->
     IF f = "source" THEN Lit("sourceUrl") ELSE Or(Field(row, f), Lit(""))]

\* extractFields of the list of src/src/components/FeedPlayer.jsx (lines 9-19)
extractFields(item) ==
  [ title       |-> Or(Field(item, "title"), Or(Field(item, "summary"), Lit("Untitled"))),
    description |-> Or(Field(item, "description"), Or(Field(item, "content"), Lit(""))),
    image       |-> Or(IF "media" \in item.has THEN mediaImage(item) ELSE None,
                       Or(Field(item, "url"), Lit(""))),
    date        |-> Or(Field(item, "date"), Or(Field(item, "created_at"), Lit(""))) ]

\* the test of the filter of both lists (src/src/components/FeedPlayer.jsx
\* lines 43-45, src/feed/src/components/FeedPlayer.jsx line 86)
hasMedia(item) == "media" \in item.has
hasImage(item) == "media" \in item.has /\ mediaImage(item) # None

\* data.filter(item => item.media && (item.media.image_full || ...))
RECURSIVE withImages(_)
withImages(data) ==
  IF data = << >> THEN << >>
  ELSE (IF hasImage(Head(data)) THEN << Head(data) >> ELSE << >>) \o withImages(Tail(data))

\* .slice(0, 5)
SliceLimit == 5
Slice(data, n) == SubSeq(data, 1, IF Len(data) < n THEN Len(data) ELSE n)

\* results.flat()
RECURSIVE Flat(_)
Flat(parts) == IF parts = << >> THEN << >> ELSE Head(parts) \o Flat(Tail(parts))

\* ------------------------------------------------------------- state
VARIABLES
  phase,              \* "init": mediaList not yet processed; "mounted"; "unmounted"
  hash,               \* window.location.hash
  hashEvents,         \* hashchange events queued
  index,              \* dropdown selection: position in mediaList, 0-based
  currentMediaIndex,
  currentMedia,       \* None or Some(item)
  selectedMediaList,
  listofMedia,        \* feed key -> None (no entry) or Some(list)
  loadedFeeds,
  loadingFeeds,       \* feed key -> BOOLEAN (no entry reads as false)
  inflight,           \* the loadFeed calls awaiting a fetch (a bag)
  gestures,           \* gestures of the user so far
  dirty,              \* names of the state changed since the effects last ran
  wanted,             \* history: the feed key selected most recently
  everLoaded,         \* history: the feed keys some load has stored a list for
  fragment,           \* window.location.hash as text
  written,            \* history: None or Some of the last updateURLHash call
  readBack,           \* None or Some of what parseHash returned after it
  activeFeed,         \* FeedPlayer of the card grid: None (null) or Some(key)
  autoplay,           \* the autoplay prop
  isPlaying,
  timers,             \* the pending image timeouts (a bag): who was showing, delay
  imageTimerRef,      \* imageTimerRef.current: None or Some(timer)
  isExpanded,         \* the description is expanded
  feedUrls,           \* the feedUrls prop of the card grid, as text
  parsed,             \* None or Some of what the parser made of feedUrls
  cardMounted,        \* the mount effects of the card grid have run
  feeds,              \* card grid: None ([]) or Some(key) of the feed whose items it holds
  loading,
  error,              \* None (null) or Some(message)
  pending,            \* the axios.get calls of the card grid not yet settled (a bag)
  isLoading,
  video,              \* the video element: playing, position, "ended" listeners
  playPending,        \* the videoRef.current.play() promises not yet settled
  currentSec,         \* the displayed current time
  fetcher,            \* the lists of items: which component fetches, or which adapter ran
  responses,          \* per URL of the specification: what its request answers
  results,            \* what the requests that answered have contributed
  settled,            \* history: the positions of the URLs in the order their requests settled
  items               \* the merged list the component holds

\* the state of the VideoPlayer
playerVars == << phase, hash, index, currentMediaIndex, currentMedia,
                 selectedMediaList, listofMedia, loadedFeeds, loadingFeeds,
                 inflight, dirty, wanted, everLoaded >>

\* the fragment as text and the card grid
textVars == << fragment, written, readBack, activeFeed >>

\* the playback
playVars == << autoplay, isPlaying, timers, imageTimerRef, isExpanded >>

\* the card grid and its parser
gridVars == << feedUrls, parsed, cardMounted, feeds, loading, error, pending >>

\* the video element and what the player shows of it
videoVars == << isLoading, video, playPending, currentSec >>

\* the lists that fetch every URL of the specification
feedVars == << fetcher, responses, results, settled, items >>

vars == << mediaList, playerVars, hashEvents, gestures, textVars, playVars, gridVars, videoVars, feedVars >>

\* the player as it is constructed with the feeds of `list`
InitPlayerWith(list) ==
  /\ mediaList = list
  /\ phase = "init"
  /\ hash \in InitialHashes
  /\ hashEvents = 0
  /\ index = 0
  /\ currentMediaIndex = 0
  /\ currentMedia = None
  /\ selectedMediaList = << >>
  /\ listofMedia = [f \in FeedKeys |-> None]
  /\ loadedFeeds = {}
  /\ loadingFeeds = [f \in FeedKeys |-> FALSE]
  /\ inflight = EmptyBag
  /\ gestures = 0
  /\ dirty = {}
  /\ wanted = ""
  /\ everLoaded = {}

InitPlayer == InitPlayerWith(DefaultMediaList)

InitText ==
  /\ fragment = << >>
  /\ written = None
  /\ readBack = None
  /\ activeFeed = None

\* a video element as it is created: paused at the start, no listener
NewVideo == [playing |-> FALSE, pos |-> 0, ended |-> 0]

\* isPlaying starts as the autoplay prop (line 841), isLoading as true
\* (line 864), currentSec as 0; no video element is rendered yet
InitPlay(auto) ==
  /\ autoplay = auto
  /\ isPlaying = auto
  /\ timers = EmptyBag
  /\ imageTimerRef = None
  /\ isExpanded = FALSE
  /\ isLoading = TRUE
  /\ video = NewVideo
  /\ playPending = 0
  /\ currentSec = 0

\* the feedUrls prop of the scenarios that are not about the parser
DefaultFeedUrls == << "a", "=", "u", "|", "a", "2", "=", "u" >>

\* the useState calls of the card grid: feeds [], loading true, error null
InitGrid(spec) ==
  /\ feedUrls = spec
  /\ parsed = None
  /\ cardMounted = FALSE
  /\ feeds = None
  /\ loading = TRUE
  /\ error = None
  /\ pending = EmptyBag

\* no list is mounted
NoFetcher ==
  /\ fetcher = << >>
  /\ responses = << >>
  /\ results = << >>
  /\ settled = << >>
  /\ items = << >>

\* autoplay = false is the default of the prop (line 830)
Init == InitPlayer /\ InitText /\ InitPlay(FALSE) /\ InitGrid(DefaultFeedUrls) /\ NoFetcher

\* the event loop is free to take the next event
Idle == phase = "mounted" /\ dirty = {}

\* the user makes one more gesture
Gesture == gestures < MaxGestures /\ gestures' = gestures + 1

\* the names of the cursor state that differ between the committed state and
\* the values an action sets
Changed(idx, cmi, cm, sel) ==
  (IF idx # index THEN {"index"} ELSE {})
    \cup (IF cmi # currentMediaIndex THEN {"currentMediaIndex"} ELSE {})
    \cup (IF cm # currentMedia THEN {"currentMedia"} ELSE {})
    \cup (IF sel # selectedMediaList THEN {"selectedMediaList"} ELSE {})

\* assigning window.location.hash queues a hashchange event when the fragment changes
HashEventsAfter(h) == IF h # hash THEN hashEvents + 1 ELSE hashEvents

\* a loadFeed call: the record of its progress
NewLoad(f, caller, ref, idx) ==
  [feed |-> f, caller |-> caller, ref |-> ref, idx |-> idx,
   pos |-> 1, acc |-> << >>, outs |-> << >>, parts |-> << >>]

\* ------------------------------------------------------------- the loader
\* the end of loadFeed (lines 1095-1104) followed by the continuation of
\* its caller: ld has stored `list`; rest are the calls still in flight
LoadDone(ld, list, rest) ==
  LET f        == ld.feed
      adoptRef == /\ ld.caller \in {"mountHash", "hashChange"}
                  /\ ld.ref >= 0
                  /\ At(list, ld.ref) # None
      \* processMediaList: a fresh table holding f alone
      replace  == ld.caller = "default"
      dropdown == ld.caller = "dropdown"
      idx1 == IF adoptRef THEN FindFeed(f) ELSE IF dropdown THEN ld.idx ELSE index
      cmi1 == IF adoptRef THEN ld.ref ELSE IF dropdown THEN 0 ELSE currentMediaIndex
      sel1 == IF adoptRef \/ replace \/ dropdown THEN list ELSE selectedMediaList
      cm1  == IF adoptRef THEN At(list, ld.ref)
              ELSE IF replace \/ dropdown THEN At(list, 0)
              ELSE currentMedia
      h1   == IF dropdown THEN updateURLHash(hash, f, 0) ELSE hash
      \* the item handed to setCurrentMedia is an object of the list just
      \* fetched: a new object, even where it equals the one showing
      fresh == (adoptRef \/ replace \/ dropdown) /\ cm1 # None
  IN  /\ listofMedia' = IF replace
                        THEN [g \in FeedKeys |-> IF g = f THEN Some(list) ELSE None]
                        ELSE [listofMedia EXCEPT ![f] = Some(list)]
      /\ loadedFeeds' = IF replace THEN {f} ELSE loadedFeeds \cup {f}
      /\ loadingFeeds' = [loadingFeeds EXCEPT ![f] = FALSE]
      /\ index' = idx1
      /\ currentMediaIndex' = cmi1
      /\ selectedMediaList' = sel1
      /\ currentMedia' = cm1
      /\ hash' = h1
      /\ hashEvents' = HashEventsAfter(h1)
      /\ dirty' = dirty \cup {"listofMedia"} \cup Changed(idx1, cmi1, cm1, sel1)
                     \cup (IF fresh THEN {"currentMedia"} ELSE {})
      /\ inflight' = rest
      /\ everLoaded' = everLoaded \cup {f}
      /\ UNCHANGED << phase, gestures, wanted >>
      /\ UNCHANGED << textVars, gridVars, feedVars, mediaList >>
      \* processMediaList ends with setIsLoading(false) (line 1058)
      /\ isLoading' = IF replace THEN FALSE ELSE isLoading
      /\ UNCHANGED << video, playPending, currentSec >>
      /\ UNCHANGED playVars

\* the fetch the call ld awaits settles with outcome o: the call goes on to
\* its next URL, or ends
Settle(ld, o) ==
  LET rest  == inflight (-) SetToBag({ld})
      res   == fetchMediaFromAPI(ld.feed, ld.pos, o)
      acc   == MergeItems(ld.acc, res)
      outs  == Append(ld.outs, o)
      parts == Append(ld.parts, res)
  IN  IF ld.pos < NumUrls(ld.feed)
      THEN /\ inflight' = rest (+) SetToBag({[ld EXCEPT !.pos = ld.pos + 1, !.acc = acc,
                                                          !.outs = outs, !.parts = parts]})
           /\ UNCHANGED << phase, hash, hashEvents, index, currentMediaIndex,
                           currentMedia, selectedMediaList, listofMedia, loadedFeeds,
                           loadingFeeds, gestures, dirty, wanted, everLoaded >>
           /\ UNCHANGED << textVars, videoVars, gridVars, feedVars, mediaList >>
           /\ UNCHANGED playVars
      ELSE LoadDone(ld, acc, rest)

\* a request answers, with any of the failures
FetchSettleAny ==
  /\ Idle
  /\ \E ld \in BagToSet(inflight) : \E o \in Outcomes : Settle(ld, o)

\* a request answers
FetchSettle ==
  /\ Idle
  /\ \E ld \in BagToSet(inflight) : \E o \in PlayerOutcomes : Settle(ld, o)

\* ------------------------------------------------------------- the hash router
\* handleHashChange (lines 989-1026) on fragment h with the table L:
\* "load" the named feed, "adopt" the cursor it names, or nothing
handleHashChange(h, L) ==
  LET p == parseHash(h)
      k == FindFeed(p.feed)
      none == [kind |-> "none", feed |-> p.feed, idx |-> k, ref |-> p.ref, list |-> << >>]
  IN  IF p.feed = "" \/ k = -1 THEN none
      ELSE IF L[p.feed] = None THEN [none EXCEPT !.kind = "load"]
      ELSE IF p.ref >= 0 /\ At(L[p.feed][1], p.ref) # None
           THEN [none EXCEPT !.kind = "adopt", !.list = L[p.feed][1]]
           ELSE none

\* the effects that depend on mediaList run once it is there (lines 905-912,
\* 968-986, 988-1032, 1034-1038)
Mount ==
  /\ phase = "init"
  /\ phase' = "mounted"
  /\ LET p     == parseHash(hash)
         k     == FindFeed(p.feed)
         known == p.feed # "" /\ k # -1
         hc    == handleHashChange(hash, listofMedia)
         l1    == IF known /\ p.ref >= 0
                  THEN SetToBag({NewLoad(p.feed, "mountHash", p.ref, k)}) ELSE EmptyBag
         l2    == IF hc.kind = "load"
                  THEN SetToBag({NewLoad(hc.feed, "hashChange", hc.ref, hc.idx)}) ELSE EmptyBag
         l3    == IF FindFeed("nasa") # -1
                  THEN SetToBag({NewLoad("nasa", "default", 0, FindFeed("nasa"))}) ELSE EmptyBag
         new   == l1 (+) l2 (+) l3
     IN  /\ index' = IF known THEN k ELSE index
         /\ inflight' = new
         /\ loadingFeeds' = [f \in FeedKeys |->
                               loadingFeeds[f] \/ \E ld \in BagToSet(new) : ld.feed = f]
         /\ dirty' = IF known /\ k # index THEN {"index"} ELSE {}
         /\ wanted' = IF known THEN p.feed ELSE IF FindFeed("nasa") # -1 THEN "nasa" ELSE ""
  /\ UNCHANGED << hash, hashEvents, currentMediaIndex, currentMedia, selectedMediaList,
                  listofMedia, loadedFeeds, gestures, everLoaded >>
  /\ UNCHANGED << textVars, videoVars, gridVars, feedVars, mediaList >>
  \* the reset effect of lines 1487-1497 runs at mount, currentMedia is null
  /\ isPlaying' = FALSE
  /\ UNCHANGED << autoplay, timers, imageTimerRef, isExpanded >>

\* loadFeed is called for feed f: the call joins those in flight
StartLoad(f, caller, ref, idx) ==
  /\ inflight' = inflight (+) SetToBag({NewLoad(f, caller, ref, idx)})
  /\ loadingFeeds' = [loadingFeeds EXCEPT ![f] = TRUE]

\* the hashchange listener runs (lines 989-1026)
HashChangeEvent ==
  /\ Idle
  /\ hashEvents > 0
  /\ LET hc == handleHashChange(hash, listofMedia)
     IN  /\ hc.kind = "load" => BagCardinality(inflight) < MaxInflight
         /\ hashEvents' = hashEvents - 1
         /\ IF hc.kind = "load"
            THEN /\ StartLoad(hc.feed, "hashChange", hc.ref, hc.idx)
                 /\ UNCHANGED << index, currentMediaIndex, currentMedia,
                                 selectedMediaList, dirty >>
            ELSE IF hc.kind = "adopt"
            THEN /\ index' = hc.idx
                 /\ selectedMediaList' = hc.list
                 /\ currentMedia' = At(hc.list, hc.ref)
                 /\ currentMediaIndex' = hc.ref
                 /\ dirty' = Changed(hc.idx, hc.ref, At(hc.list, hc.ref), hc.list)
                 /\ UNCHANGED << inflight, loadingFeeds >>
            ELSE UNCHANGED << index, currentMediaIndex, currentMedia, selectedMediaList,
                              dirty, inflight, loadingFeeds >>
  /\ UNCHANGED << phase, hash, listofMedia, loadedFeeds, gestures,
                  wanted, everLoaded >>
  /\ UNCHANGED << textVars, videoVars, gridVars, feedVars, mediaList >>
  /\ UNCHANGED playVars

\* ------------------------------------------------------------- playback
ImageExtensions == { "jpg", "jpeg", "png", "gif", "bmp", "webp" }

\* isImageFile (lines 1228-1232)
isImageFile(url) == url # NullUrl /\ url.ext \in ImageExtensions

\* isVideoFile (lines 1234-1238)
VideoExtensions == { "mp4", "webm", "ogg" }

isVideoFile(url) == url # NullUrl /\ url.ext \in VideoExtensions

\* the render shows cm in the video element (lines 1571-1650), and
\* videoRef.current is that element
VideoShown(cm) ==
  /\ ~isLoading
  /\ cm # None
  /\ ~cm[1].isError
  /\ ~isImageFile(cm[1].url)
  /\ isVideoFile(cm[1].url)

\* clearTimeout(imageTimerRef.current): the timers left pending
clearTimeout(ts, ref) == IF ref # None THEN ts (-) SetToBag({ref[1]}) ELSE ts

\* the timeout playImage installs while cm is showing
Timer(cm) == [item |-> cm, delay |-> imageDuration - imageElapsed]

\* playImage without its clearTimeout
playImageNoClear(ts, ref, cm) ==
  [ timers |-> ts (+) SetToBag({Timer(cm)}),
    ref    |-> Some(Timer(cm)) ]

\* playImage (lines 1296-1302)
playImage(ts, ref, cm) ==
  [ timers |-> clearTimeout(ts, ref) (+) SetToBag({Timer(cm)}),
    ref    |-> Some(Timer(cm)) ]

\* play that starts the countdown of an image and leaves the flag alone
playKeepsFlag(ts, ref, cm, playing) ==
  IF cm # None /\ isImageFile(cm[1].url)
  THEN [ timers    |-> playImage(ts, ref, cm).timers,
         ref       |-> playImage(ts, ref, cm).ref,
         isPlaying |-> playing,
         started   |-> FALSE ]
  ELSE [ timers |-> ts, ref |-> ref, isPlaying |-> playing, started |-> VideoShown(cm) ]

\* play (lines 1249-1268) on the current item cm, up to its await: an image
\* starts its countdown and sets the flag; for a video that has its element
\* videoRef.current.play() is started, and the flag waits for the promise
play(ts, ref, cm, playing) ==
  IF cm # None /\ isImageFile(cm[1].url)
  THEN [ timers    |-> playImage(ts, ref, cm).timers,
         ref       |-> playImage(ts, ref, cm).ref,
         isPlaying |-> TRUE,
         started   |-> FALSE ]
  ELSE [ timers |-> ts, ref |-> ref, isPlaying |-> playing, started |-> VideoShown(cm) ]

\* pause without its pauseImage
pauseKeepsTimer(ts, ref, cm) ==
  [ timers |-> ts, ref |-> ref, isPlaying |-> FALSE, paused |-> VideoShown(cm) ]

\* pause (lines 1270-1281) with pauseImage (lines 1304-1306); paused: the
\* video element is paused
pause(ts, ref, cm) ==
  [ timers    |-> IF cm # None /\ isImageFile(cm[1].url) THEN clearTimeout(ts, ref) ELSE ts,
    ref       |-> ref,
    isPlaying |-> FALSE,
    paused    |-> VideoShown(cm) ]

\* the "ended" listeners on the video element after the effect of lines
\* 1413-1444 ran again: the cleanup removes the one of the last run, the
\* body adds one when the item is a video with its element
listenersAfterEffect(n, shown) ==
  IF shown THEN (IF n > 0 THEN n - 1 ELSE 0) + 1 ELSE 0

\* the playback effects of one pass: the cleanup of lines 1437-1443 when
\* currentMedia changed, then the reset of lines 1487-1497
PlaybackEffects ==
  LET clean == "currentMedia" \in dirty
      reset == dirty \cap {"currentMedia", "currentMediaIndex", "listofMedia"} # {}
      ts0   == IF clean THEN clearTimeout(timers, imageTimerRef) ELSE timers
      pl    == play(ts0, imageTimerRef, currentMedia, FALSE)
      calls == reset /\ autoplay /\ pl.started
  IN  /\ timers' = IF reset /\ autoplay THEN pl.timers ELSE ts0
      /\ imageTimerRef' = IF reset /\ autoplay THEN pl.ref ELSE imageTimerRef
      /\ isPlaying' = IF reset THEN (autoplay /\ pl.isPlaying) ELSE isPlaying
      \* a new item is a new src: the element starts over, paused
      /\ video' = IF clean
                  THEN [ playing |-> FALSE, pos |-> 0,
                         ended   |-> listenersAfterEffect(video.ended, VideoShown(currentMedia)) ]
                  ELSE video
      /\ calls => playPending < MaxPlayCalls
      /\ playPending' = IF calls THEN playPending + 1 ELSE playPending
      /\ currentSec' = IF reset THEN 0 ELSE currentSec
      /\ UNCHANGED << autoplay, isExpanded, isLoading >>

\* one pass of the effects whose dependencies changed, in declaration order:
\* the hash writer (901-903), the hashchange effect re-registered on a new
\* table, which calls handleHashChange itself (988-1032), the sync of
\* currentMedia to currentMediaIndex (1446-1451), the initial item (1453-1459)
RunEffects ==
  /\ phase = "mounted"
  /\ dirty # {}
  /\ LET write   == /\ dirty \cap {"currentMediaIndex", "currentMedia", "index"} # {}
                    /\ currentMedia # None
                    /\ Len(selectedMediaList) > 0
         h1      == IF write
                    THEN updateURLHash(hash, mediaList[index + 1].feed, currentMediaIndex)
                    ELSE hash
         hc      == handleHashChange(h1, listofMedia)
         rerun   == "listofMedia" \in dirty
         adopt   == rerun /\ hc.kind = "adopt"
         load    == rerun /\ hc.kind = "load"
         sync    == "currentMediaIndex" \in dirty /\ Len(selectedMediaList) > 0
         initial == /\ dirty \cap {"selectedMediaList", "currentMedia"} # {}
                    /\ Len(selectedMediaList) > 0
                    /\ currentMedia = None
         idx1 == IF adopt THEN hc.idx ELSE index
         sel1 == IF adopt THEN hc.list ELSE selectedMediaList
         cmi1 == IF initial THEN 0 ELSE IF adopt THEN hc.ref ELSE currentMediaIndex
         cm1  == IF initial THEN At(selectedMediaList, 0)
                 ELSE IF sync THEN At(selectedMediaList, currentMediaIndex)
                 ELSE IF adopt THEN At(hc.list, hc.ref)
                 ELSE currentMedia
     IN  /\ hash' = h1
         /\ hashEvents' = HashEventsAfter(h1)
         /\ index' = idx1
         /\ selectedMediaList' = sel1
         /\ currentMediaIndex' = cmi1
         /\ currentMedia' = cm1
         /\ dirty' = Changed(idx1, cmi1, cm1, sel1)
         /\ IF load
            THEN StartLoad(hc.feed, "hashChange", hc.ref, hc.idx)
            ELSE UNCHANGED << inflight, loadingFeeds >>
  /\ UNCHANGED << phase, listofMedia, loadedFeeds, gestures, wanted,
                  everLoaded >>
  /\ UNCHANGED << textVars, gridVars, feedVars, mediaList >>
  /\ PlaybackEffects

\* ------------------------------------------------------------- the cursor
\* setCurrentMediaIndex alone: the handlers of next, prev and seek
SetIndex(i) ==
  /\ Gesture
  /\ currentMediaIndex' = i
  /\ dirty' = IF i # currentMediaIndex THEN {"currentMediaIndex"} ELSE {}
  /\ UNCHANGED << phase, hash, hashEvents, index, currentMedia, selectedMediaList,
                  listofMedia, loadedFeeds, loadingFeeds, inflight,
                  wanted, everLoaded >>
  /\ UNCHANGED << textVars, videoVars, gridVars, feedVars, mediaList >>
  /\ UNCHANGED playVars

\* the index handleNext computes (line 1310)
NextIndex(prevIndex) == (prevIndex + 1) % Len(mediaList)

\* the index handlePrev computes (line 1318)
PrevIndex(prevIndex) == (prevIndex - 1 + Len(mediaList)) % Len(mediaList)

handleNext == Idle /\ SetIndex(NextIndex(currentMediaIndex))

handlePrev == Idle /\ SetIndex(PrevIndex(currentMediaIndex))

\* totalSlides of handleProgressBarClick and of the bar's markers
TotalSlides(len) == IF len < DisplayCap THEN len ELSE DisplayCap

\* targetSlide for a click at ratio k / ClickDen of the bar's width
TargetSlide(k, len) == (k * TotalSlides(len)) \div ClickDen

\* moveToSlide (lines 1336-1341)
moveToSlide(i) == SetIndex(i)

\* a click on the progress bar, rendered when the list has more than one item
handleProgressBarClick ==
  /\ Idle
  /\ Len(selectedMediaList) > 1
  /\ \E k \in 0..ClickDen : moveToSlide(TargetSlide(k, Len(selectedMediaList)))

\* a click on one of the bar's markers (lines 1691-1705)
ProgressPointClick ==
  /\ Idle
  /\ Len(selectedMediaList) > 1
  /\ \E i \in 0..(TotalSlides(Len(selectedMediaList)) - 1) : moveToSlide(i)

\* the dropdown entry idx is clicked (lines 1738-1756)
SelectFeed(idx) ==
  LET f == mediaList[idx + 1].feed
  IN  /\ Idle
      /\ Gesture
      /\ wanted' = f
      /\ IF f \in loadedFeeds
         THEN LET list == listofMedia[f][1]
                  h1   == updateURLHash(hash, f, 0)
              IN  /\ index' = idx
                  /\ currentMediaIndex' = 0
                  /\ selectedMediaList' = list
                  /\ currentMedia' = At(list, 0)
                  /\ hash' = h1
                  /\ hashEvents' = HashEventsAfter(h1)
                  /\ dirty' = Changed(idx, 0, At(list, 0), list)
                  /\ UNCHANGED << inflight, loadingFeeds >>
         ELSE /\ BagCardinality(inflight) < MaxInflight
              /\ StartLoad(f, "dropdown", 0, idx)
              /\ UNCHANGED << index, currentMediaIndex, selectedMediaList, currentMedia,
                              hash, hashEvents, dirty >>
      /\ UNCHANGED << phase, listofMedia, loadedFeeds, everLoaded >>
      /\ UNCHANGED << textVars, videoVars, gridVars, feedVars, mediaList >>
      /\ UNCHANGED playVars

DropdownClick == \E idx \in 0..(Len(mediaList) - 1) : SelectFeed(idx)

\* the user edits the fragment or goes back / forward
ExternalHashChange ==
  /\ Idle
  /\ Gesture
  /\ hashEvents = 0
  /\ \E h \in TypedHashes :
       /\ h # hash
       /\ hash' = h
       /\ hashEvents' = hashEvents + 1
       /\ wanted' = IF h.feed \in FeedKeys THEN h.feed ELSE wanted
  /\ UNCHANGED << phase, index, currentMediaIndex, currentMedia, selectedMediaList,
                  listofMedia, loadedFeeds, loadingFeeds, inflight, dirty,
                  everLoaded >>
  /\ UNCHANGED << textVars, videoVars, gridVars, feedVars, mediaList >>
  /\ UNCHANGED playVars

Next ==
  \/ Mount
  \/ FetchSettle
  \/ RunEffects
  \/ HashChangeEvent
  \/ handleNext
  \/ handlePrev
  \/ handleProgressBarClick
  \/ ProgressPointClick
  \/ DropdownClick
  \/ ExternalHashChange

Spec == Init /\ [][Next]_vars

\* the loader alone: the page opens without a fragment, the default feed is
\* loaded, the user picks feeds from the dropdown, and every request can
\* end in any of the failures
InitLoader == Init /\ hash.feed = ""

NextLoader ==
  \/ Mount
  \/ FetchSettleAny
  \/ RunEffects
  \/ HashChangeEvent
  \/ DropdownClick

SpecLoader == InitLoader /\ [][NextLoader]_vars

\* ------------------------------------------------------------- updateURLHash and parseHash on text
\* the characters a feed key of the sheet is made of
KeyChars == { "a", "2", "6", "&", "=", "+", " ", "%" }

\* the feed keys: the non-empty texts of at most MaxKeyLen characters
TextFeedKeys ==
  UNION { [1..n -> KeyChars] : n \in 1..MaxKeyLen }

\* the fragments the page has when updateURLHash is called
PriorFragments ==
  { << >>,
    << "#", "f", "e", "e", "d", "=", "a", "&", "r", "e", "f", "=", "1" >>,
    << "#", "x", "=", "1" >>,
    << "#", "x", "=", "a", "+", "6", "&", "f", "e", "e", "d", "=", "a", "&", "r", "e", "f", "=", "2", "&", "y" >>,
    << "#", "r", "e", "f", "=", "5", "&", "z", "=", "%", "2", "6", "&", "f", "e", "e", "d", "=", "a", "%", "2", "6" >>,
    << "#", "x", "=", "1", "&", "x", "=", "2" >>,
    << "#", "r", "e", "f", "=", "z" >> }

InitHash ==
  /\ InitPlayer
  /\ InitPlay(FALSE)
  /\ InitGrid(DefaultFeedUrls) /\ NoFetcher
  /\ hash.feed = ""
  /\ fragment \in PriorFragments
  /\ written = None
  /\ readBack = None
  /\ activeFeed = None

\* updateURLHash(feed, ref) is called
CallUpdateURLHash ==
  /\ written = None
  /\ \E feed \in TextFeedKeys : \E ref \in 0..MaxIndex :
       /\ fragment' = updateURLHashText(fragment, feed, ref)
       /\ written' = Some([feed |-> feed, ref |-> ref, before |-> fragment])
  /\ UNCHANGED << playerVars, playVars, videoVars, gridVars, feedVars, mediaList, hashEvents, gestures, readBack, activeFeed >>

\* parseHash() is called
CallParseHash ==
  /\ written # None
  /\ readBack = None
  /\ readBack' = Some(parseHashText(fragment))
  /\ UNCHANGED << playerVars, playVars, videoVars, gridVars, feedVars, mediaList, hashEvents, gestures, fragment, written, activeFeed >>

NextHash ==
  \/ CallUpdateURLHash
  \/ CallParseHash

SpecHash == InitHash /\ [][NextHash]_vars

\* ------------------------------------------------------------- the FeedPlayer of the card grid
\* feedMap = buildFeedMap(feedUrls) and feedKeys = Object.keys(feedMap) of
\* src/unnamed/part_003
feedMap == buildFeedMap(feedUrls)
feedKeys == ObjectKeys(feedMap)

\* a name every object inherits from Object.prototype (as toString, valueOf,
\* hasOwnProperty)
ObjectPrototypeKeys == { << "c", "o", "n", "s", "t", "r", "u", "c", "t", "o", "r" >> }

IsOwnKey(key) == \E k \in 1..Len(feedMap) : feedMap[k].key = key

\* feedMap[key] of an own key
OwnValue(key) == feedMap[CHOOSE k \in 1..Len(feedMap) : feedMap[k].key = key].value

\* feedMap[key] is truthy: an own key with a URL that is not empty, or an
\* inherited member
feedMapTruthy(key) ==
  IF IsOwnKey(key) THEN OwnValue(key) # << >> ELSE key \in ObjectPrototypeKeys

\* getFeedFromHash (lines 38-47): None is null
getFeedFromHash(frag) ==
  IF frag # << >> /\ Includes(frag, FeedName \o << "=" >>)
  THEN LET feedParam == ParamsGet(URLSearchParams(AfterHashSign(frag)), FeedName)
       IN  IF feedParam # None /\ feedParam[1] # << >> /\ feedMapTruthy(feedParam[1])
           THEN feedParam
           ELSE None
  ELSE None

\* setFeedHash (lines 49-51): the fragment after the call
setFeedHash(feedKey) == AssignHash(FeedName \o << "=" >> \o encodeURIComponent(feedKey))

\* the fragments the page is opened with or the user navigates to
CardFragments ==
  { << >>,
    << "#", "f", "e", "e", "d", "=", "a" >>,
    << "#", "f", "e", "e", "d", "=", "a", "2" >>,
    << "#", "f", "e", "e", "d", "=", "a", "2", "&", "x", "=", "1" >>,
    << "#", "x", "=", "1" >>,
    << "#", "f", "e", "e", "d", "=", "a", "6" >>,
    << "#", "f", "e", "e", "d", "=" >>,
    << "#", "x", "f", "e", "e", "d", "=", "a" >>,
    << "#", "f", "e", "e", "d", "=", "c", "o", "n", "s", "t", "r", "u", "c", "t", "o", "r" >>,
    << "#", "f", "e", "e", "d", "=", "a", "&", "r", "e", "f", "=", "1" >>,
    << "#", "r", "e", "f", "=", "3" >>,
    << "#", "f", "e", "e", "d", "=", "a", "2", "&", "f", "e", "e", "d", "=", "a" >>,
    << "#", "y", "&", "f", "e", "e", "d", "=", "a" >>,
    << "#", "f", "e", "e", "d", "=", "a", "+", "2" >> }

InitCard ==
  /\ InitPlayer
  /\ InitPlay(FALSE)
  /\ InitGrid(DefaultFeedUrls) /\ NoFetcher
  /\ hash.feed = ""
  /\ fragment \in CardFragments
  /\ written = None
  /\ readBack = None
  /\ activeFeed = None

\* the queue of hashchange events after the fragment becomes frag
CardEventsAfter(frag) == IF frag # fragment THEN hashEvents + 1 ELSE hashEvents

\* the URL fetchFeeds asks for (lines 93-104)
requestUrl(selectedUrl) ==
  IF detectFeedType(selectedUrl) = googlesheet THEN rewriteSheetUrl(selectedUrl)
  ELSE selectedUrl

\* the messages the card grid shows
NoMatchingFeed == "No matching feed found for activeFeed"
NotAFunction == "url.includes is not a function"
NoFeedData == "No feed data available"
RequestFailed == "Request failed"

\* fetchFeeds up to its first await (lines 89-105), run by the effect on
\* [feedUrls, activeFeed] after activeFeed became af: null returns, a key
\* without a URL throws, an inherited member is not a string, and each throw
\* is caught (lines 140-142)
fetchFeeds(af) ==
  IF af = None
  THEN UNCHANGED << loading, error, pending >>
  ELSE IF ~feedMapTruthy(af[1])
  THEN /\ error' = Some(NoMatchingFeed)
       /\ loading' = FALSE
       /\ UNCHANGED pending
  ELSE IF ~IsOwnKey(af[1])
  THEN /\ error' = Some(NotAFunction)
       /\ loading' = FALSE
       /\ UNCHANGED pending
  ELSE /\ pending' = pending (+) SetToBag({[feed |-> af[1], url |-> requestUrl(OwnValue(af[1]))]})
       /\ UNCHANGED << loading, error >>

\* the effects of the first commit: the mount effect (lines 61-71), the
\* hashchange listener (lines 73-82), fetchFeeds with activeFeed null, and
\* fetchFeeds again when the mount effect set activeFeed
CardMount ==
  /\ ~cardMounted
  /\ cardMounted' = TRUE
  /\ IF Len(feedKeys) = 0
     THEN /\ UNCHANGED << activeFeed, fragment, hashEvents >>
          /\ fetchFeeds(None)
     ELSE LET feedFromHash == getFeedFromHash(fragment)
          IN  /\ IF feedFromHash # None
                 THEN /\ activeFeed' = feedFromHash
                      /\ UNCHANGED << fragment, hashEvents >>
                 ELSE /\ activeFeed' = Some(feedKeys[1])
                      /\ fragment' = setFeedHash(feedKeys[1])
                      /\ hashEvents' = CardEventsAfter(setFeedHash(feedKeys[1]))
              /\ fetchFeeds(activeFeed')
  /\ UNCHANGED << playerVars, playVars, videoVars, gestures, written, readBack, feedUrls, feedVars, mediaList, parsed, feeds >>

\* the hashchange listener (lines 73-82), and fetchFeeds when it changed
\* activeFeed
onHashChange ==
  /\ cardMounted
  /\ hashEvents > 0
  /\ hashEvents' = hashEvents - 1
  /\ LET feedFromHash == getFeedFromHash(fragment)
     IN  activeFeed' = IF feedFromHash # None THEN feedFromHash ELSE activeFeed
  /\ IF activeFeed' # activeFeed THEN fetchFeeds(activeFeed')
     ELSE UNCHANGED << loading, error, pending >>
  /\ UNCHANGED << playerVars, playVars, videoVars, gestures, fragment, written, readBack,
                  feedUrls, feedVars, mediaList, parsed, cardMounted, feeds >>

\* what the card grid renders (lines 148-162): the spinner while loading,
\* else only the message when there is an error, else the select and the cards
Rendered == IF loading THEN "spinner" ELSE IF error # None THEN "error" ELSE "cards"

\* the rest of fetchFeeds for one request (lines 105-143): a response with
\* items, a response without, or a failed request
CardOutcomes == { "items", "empty", "failed" }

CardSettle(p, outcome) ==
  /\ cardMounted
  /\ BagIn(p, pending)
  /\ pending' = pending (-) SetToBag({p})
  /\ loading' = FALSE
  /\ IF outcome = "items"
     THEN feeds' = Some(p.feed) /\ UNCHANGED error
     ELSE /\ error' = Some(IF outcome = "empty" THEN NoFeedData ELSE RequestFailed)
          /\ UNCHANGED feeds
  /\ UNCHANGED << playerVars, playVars, hashEvents, gestures, textVars, videoVars,
                  feedUrls, feedVars, mediaList, parsed, cardMounted >>

CardFetchSettle == \E p \in BagToSet(pending) : \E outcome \in CardOutcomes : CardSettle(p, outcome)

\* the select element changes (lines 84-87); the select is part of the cards
handleFeedChange ==
  /\ cardMounted
  /\ Rendered = "cards"
  /\ Gesture
  /\ \E k \in 1..Len(feedKeys) :
       /\ fragment' = setFeedHash(feedKeys[k])
       /\ hashEvents' = CardEventsAfter(setFeedHash(feedKeys[k]))
  /\ UNCHANGED << playerVars, playVars, videoVars, gridVars, feedVars, mediaList, written, readBack, activeFeed >>

\* the user edits the fragment or goes back / forward
CardNavigate ==
  /\ cardMounted
  /\ Gesture
  /\ \E frag \in CardFragments :
       /\ frag # fragment
       /\ fragment' = frag
       /\ hashEvents' = hashEvents + 1
  /\ UNCHANGED << playerVars, playVars, videoVars, gridVars, feedVars, mediaList, written, readBack, activeFeed >>

NextCard ==
  \/ CardMount
  \/ onHashChange
  \/ CardFetchSettle
  \/ handleFeedChange
  \/ CardNavigate

SpecCard == InitCard /\ [][NextCard]_vars

\* the card grid given any of the specification strings
GridSpecs ==
  { DefaultFeedUrls, << >>, << " " >>, << "|" >>, << " ", "|", " " >>, << "a", "=", "u" >> }

InitGridSpecs ==
  /\ InitPlayer
  /\ InitPlay(FALSE)
  /\ \E spec \in GridSpecs : InitGrid(spec) /\ NoFetcher
  /\ hash.feed = ""
  /\ fragment \in CardFragments
  /\ written = None
  /\ readBack = None
  /\ activeFeed = None

SpecGrid == InitGridSpecs /\ [][NextCard]_vars

\* ------------------------------------------------------------- the parser on its own
MaxWords == 4

\* what the specification strings are made of: key and URL characters, the
\* separators, a space and a host detectFeedType knows
SpecWords == { << "a" >>, << "2" >>, << "1" >>, << "=" >>, << "|" >>, << " " >>, NasaHost }

RECURSIVE Phrases(_, _)
Phrases(words, n) ==
  IF n = 0 THEN { << >> }
  ELSE Phrases(words, n - 1) \cup { p \o w : p \in Phrases(words, n - 1), w \in words }

InitParser ==
  /\ InitPlayer
  /\ InitText
  /\ InitPlay(FALSE)
  /\ \E spec \in Phrases(SpecWords, MaxWords) : InitGrid(spec) /\ NoFetcher

\* the keyed card grid builds its feed map (src/unnamed/part_003 line 58)
ParseKeyed ==
  /\ parsed = None
  /\ parsed' = Some([variant |-> "keyed", map |-> buildFeedMap(feedUrls)])
  /\ UNCHANGED << playerVars, hashEvents, gestures, textVars, videoVars, playVars,
                  feedUrls, feedVars, mediaList, cardMounted, feeds, loading, error, pending >>

\* the typed card grid builds its feed map (FeedPlayer.tsx line 60)
ParseTyped ==
  /\ parsed = None
  /\ parsed' = Some([variant |-> "typed", map |-> buildFeedMapByType(feedUrls)])
  /\ UNCHANGED << playerVars, hashEvents, gestures, textVars, videoVars, playVars,
                  feedUrls, feedVars, mediaList, cardMounted, feeds, loading, error, pending >>

NextParser == ParseKeyed \/ ParseTyped

SpecParser == InitParser /\ [][NextParser]_vars

\* ------------------------------------------------------------- the adapters on their own
\* raw items one response holds
MaxRaw == 2

\* the raw items of the scenario: without any field, with every field, with
\* every field but no media object, with an empty media object
AdapterShapes == { {}, ItemFields \cup MediaFields, ItemFields, {"media"} }

\* the responses of URL u of at most n items
RawLists(u, shapes, n) ==
  UNION { { [k \in 1..m |-> RawItem(u, k, f[k])] : f \in [1..m -> shapes] } : m \in 0..n }

\* what the request of a URL answers: None when it fails, or Some(items);
\* civic: the URL is one of seeclickfix.com
Response(civic, data) == [civic |-> civic, data |-> data]

InitAdapter ==
  /\ InitPlayer
  /\ InitText
  /\ InitPlay(FALSE)
  /\ InitGrid(DefaultFeedUrls)
  /\ fetcher = << >>
  /\ results = << >>
  /\ settled = << >>
  /\ items = << >>
  /\ \E data \in RawLists(1, AdapterShapes, MaxRaw) :
       responses = << Response(TRUE, Some(data)) >>

\* the adapter named by `name` has mapped the response to `list`
Adapted(name, list) ==
  /\ fetcher = << >>
  /\ fetcher' = name
  /\ items' = list
  /\ UNCHANGED << playerVars, hashEvents, gestures, textVars, playVars, gridVars,
                  videoVars, mediaList, responses, results, settled >>

\* fetchMediaFromAPI of the VideoPlayer on the response of a feed
AdaptContext ==
  \E feed \in FeedKeys :
    Adapted(<< "fetchMediaFromAPI", feed >>, adaptResponse(feed, responses[1].data[1]))

\* the card grid that fetches every feed maps the response (part_000 lines
\* 118-153)
AdaptAll ==
  \E type \in { "nasa", "seeclickfix", "bsky", "googlesheet", "default" } :
    LET data == responses[1].data[1]
    IN  Adapted(<< "processFeedItem", type >>,
                [k \in 1..Len(data) |->
                   IF type = "googlesheet" THEN sheetItem(data[k])
                   ELSE processFeedItem(data[k], type)])

\* the list renders the items it holds (FeedPlayer.jsx lines 70-71)
AdaptList ==
  LET data == responses[1].data[1]
  IN  Adapted(<< "extractFields" >>, [k \in 1..Len(data) |-> extractFields(data[k])])

NextAdapter == AdaptContext \/ AdaptAll \/ AdaptList

SpecAdapter == InitAdapter /\ [][NextAdapter]_vars

\* ------------------------------------------------------------- the lists that fetch every URL
\* issues of the first URL's response
MaxIssues == 7
\* URLs of the specification
MaxUrls == 2

\* the three components that fetch every URL of feedUrls: the card grid of
\* src/unnamed/part_000 (feedType 'mixed'), the list of
\* src/src/components/FeedPlayer.jsx and the list of issues of
\* src/feed/src/components/FeedPlayer.jsx
Fetchers == { << "grid" >>, << "list" >>, << "issues" >> }

\* the responses of the first URL: short ones of issues without a media
\* object, with an empty one and with both images, and long ones of issues
\* without a media object and with a representative image
IssueLists ==
  RawLists(1, { {}, {"media"}, MediaFields }, MaxRaw)
    \cup RawLists(1, { {}, {"media", "representative_image_url"} }, MaxIssues)

\* the card of the catch block of the list (FeedPlayer.jsx lines 52-56)
failureCard ==
  [title |-> Lit("Failed to load feed"), description |-> Lit("err.message"), image |-> Lit("")]

\* what the request of one URL adds to the merged list
contribution(f, resp) ==
  IF f = << "grid" >>
  THEN IF resp.data = None THEN << >>
       ELSE [k \in 1..Len(resp.data[1]) |->
               processFeedItem(resp.data[1][k], IF resp.civic THEN "seeclickfix" ELSE "default")]
  ELSE IF f = << "list" >>
  THEN IF resp.data = None THEN << failureCard >>
       ELSE IF resp.civic THEN Slice(withImages(resp.data[1]), SliceLimit)
       ELSE resp.data[1]
  ELSE IF resp.data = None THEN << >>
       ELSE Slice(withImages(resp.data[1]), SliceLimit)

NoItemsWithImages ==
  "No items found with images. Please check the coordinates or try different locations."

\* a result put where the request that settled first finds room
storeAsSettled(rs, u, r) ==
  [rs EXCEPT ![CHOOSE v \in 1..Len(rs) : rs[v] = None /\ \A w \in 1..(v - 1) : rs[w] # None] = Some(r)]

\* Promise.all: the value of the promise of position u is element u of the
\* array it resolves to
storeResult(rs, u, r) == [rs EXCEPT ![u] = Some(r)]

\* what a URL after the first answers: a failure, or one item with every
\* field, from seeclickfix.com or from elsewhere
OtherResponses(u) ==
  { Response(TRUE, None) }
    \cup { Response(c, Some(<< RawItem(u, 1, ItemFields \cup MediaFields) >>)) : c \in BOOLEAN }

InitFeeds ==
  /\ InitPlayer
  /\ InitText
  /\ InitPlay(FALSE)
  /\ InitGrid(DefaultFeedUrls)
  /\ fetcher \in Fetchers
  /\ \E n \in 1..MaxUrls, d1 \in {None} \cup { Some(l) : l \in IssueLists } :
       /\ responses \in [1..n -> { Response(TRUE, d1) } \cup UNION { OtherResponses(u) : u \in 2..n }]
       /\ responses[1] = Response(TRUE, d1)
       /\ \A u \in 2..n : responses[u] \in OtherResponses(u)
       /\ fetcher = << "issues" >> => \A u \in 1..n : responses[u].civic
  /\ results = << >>
  /\ settled = << >>
  /\ items = << >>

\* the effect that runs fetchFeeds: the card grid starts every request at
\* once (part_000 lines 111-161), the lists start the request of the first
\* URL; the lists call setLoading(true), the list of issues setError(null)
\* too, which are the values the state starts with
FeedsMount ==
  /\ ~cardMounted
  /\ cardMounted' = TRUE
  /\ pending' = IF fetcher = << "grid" >> THEN SetToBag(1..Len(responses)) ELSE SetToBag({1})
  /\ results' = IF fetcher = << "grid" >> THEN [u \in 1..Len(responses) |-> None] ELSE << >>
  /\ loading' = TRUE
  /\ error' = None
  /\ UNCHANGED << playerVars, hashEvents, gestures, textVars, playVars, videoVars,
                  mediaList, feedUrls, parsed, feeds, fetcher, responses, settled, items >>

\* the merged list is stored: the card grid and the list of issues show an
\* error instead of an empty list
FeedsDone(merged) ==
  /\ loading' = FALSE
  /\ IF merged = << >> /\ fetcher # << "list" >>
     THEN /\ error' = Some(IF fetcher = << "issues" >> THEN NoItemsWithImages ELSE NoFeedData)
          /\ items' = IF fetcher = << "issues" >> THEN << >> ELSE items
     ELSE /\ items' = merged
          /\ UNCHANGED error

\* the request of URL u settles
FeedsSettle(u) ==
  /\ u \in BagToSet(pending)
  /\ LET r      == contribution(fetcher, responses[u])
         rs     == IF fetcher = << "grid" >> THEN storeResult(results, u, r)
                   ELSE Append(results, Some(r))
         merged == Flat([v \in 1..Len(rs) |-> rs[v][1]])
     IN  /\ results' = rs
         /\ settled' = Append(settled, u)
         /\ IF fetcher # << "grid" >> /\ u < Len(responses)
            THEN /\ pending' = SetToBag({u + 1})
                 /\ UNCHANGED << loading, error, items >>
            ELSE /\ pending' = pending (-) SetToBag({u})
                 /\ IF pending' = EmptyBag THEN FeedsDone(merged)
                    ELSE UNCHANGED << loading, error, items >>
  /\ UNCHANGED << playerVars, hashEvents, gestures, textVars, playVars, videoVars,
                  mediaList, feedUrls, parsed, cardMounted, feeds, fetcher, responses >>

FeedsFetchSettle == \E u \in 1..MaxUrls : FeedsSettle(u)

NextFeeds == FeedsMount \/ FeedsFetchSettle

SpecFeeds == InitFeeds /\ [][NextFeeds]_vars

\* ------------------------------------------------------------- the spreadsheet URL on its own
MaxUrlWords == 4

\* what the URLs are made of
UrlWords == { << "/", "d", "/" >>, PubForm, GvizForm, << "x" >>, << "/" >> }

\* the URLs of the scenario: on the spreadsheet host or on none
SheetUrls ==
  { h \o t : h \in { SheetHost, << "u" >> }, t \in Phrases(UrlWords, MaxUrlWords) }

InitSheet ==
  /\ InitPlayer
  /\ InitText
  /\ InitPlay(FALSE)
  /\ \E url \in SheetUrls : InitGrid(url) /\ NoFetcher

\* the card grid that fetches every feed maps its one URL (src/unnamed/part_000
\* lines 98-104)
NormalizeAll ==
  /\ parsed = None
  /\ Len(trimmedSegments(Split(feedUrls, "|"))) = 1
  /\ LET url == trimmedSegments(Split(feedUrls, "|"))[1]
     IN  parsed' = Some([variant |-> "all",
                         url |-> IF detectFeedType(url) = googlesheet
                                 THEN processGoogleSheetUrl(url) ELSE url])
  /\ UNCHANGED << playerVars, hashEvents, gestures, textVars, videoVars, playVars,
                  feedUrls, feedVars, mediaList, cardMounted, feeds, loading, error, pending >>

\* fetchFeeds of the keyed and of the typed card grid with the URL as
\* selectedUrl
NormalizeSelected ==
  /\ parsed = None
  /\ parsed' = Some([variant |-> "selected", url |-> requestUrl(feedUrls)])
  /\ UNCHANGED << playerVars, hashEvents, gestures, textVars, videoVars, playVars,
                  feedUrls, feedVars, mediaList, cardMounted, feeds, loading, error, pending >>

NextSheet == NormalizeAll \/ NormalizeSelected

SpecSheet == InitSheet /\ [][NextSheet]_vars


\* play() is called from a handler: what it does up to its await
PlayCalled ==
  LET r == play(timers, imageTimerRef, currentMedia, isPlaying)
  IN  /\ timers' = r.timers
      /\ imageTimerRef' = r.ref
      /\ isPlaying' = r.isPlaying
      /\ r.started => playPending < MaxPlayCalls
      /\ playPending' = IF r.started THEN playPending + 1 ELSE playPending
      /\ UNCHANGED video

\* pause() is called from a handler
PauseCalled ==
  LET r == pause(timers, imageTimerRef, currentMedia)
  IN  /\ timers' = r.timers
      /\ imageTimerRef' = r.ref
      /\ isPlaying' = r.isPlaying
      /\ video' = IF r.paused THEN [video EXCEPT !.playing = FALSE] ELSE video
      /\ UNCHANGED playPending

\* neither is called
NeitherCalled == UNCHANGED << timers, imageTimerRef, isPlaying, video, playPending >>

\* the play / pause button (lines 1240-1247)
handlePlayPause ==
  /\ Idle
  /\ IF isPlaying THEN PauseCalled ELSE PlayCalled
  /\ UNCHANGED << playerVars, hashEvents, gestures, textVars, gridVars, feedVars, mediaList, autoplay, isExpanded,
                  isLoading, currentSec >>

\* the video branch of stop without the reset of the position
stopVideoKeepsTime(v) == [v EXCEPT !.playing = FALSE]

\* the video branch of stop (lines 1287-1290): pause, currentTime = 0
stopVideo(v) == [v EXCEPT !.playing = FALSE, !.pos = 0]

\* the stop button (lines 1283-1294)
stop ==
  /\ Idle
  /\ LET image == currentMedia # None /\ isImageFile(currentMedia[1].url)
     IN  /\ timers' = IF image THEN clearTimeout(timers, imageTimerRef) ELSE timers
         /\ video' = IF ~image /\ VideoShown(currentMedia) THEN stopVideo(video) ELSE video
  /\ currentSec' = 0
  /\ isPlaying' = FALSE
  /\ UNCHANGED << playerVars, hashEvents, gestures, textVars, gridVars, feedVars, mediaList, autoplay, imageTimerRef,
                  isExpanded, isLoading, playPending >>

\* the chevron of the description (lines 1374-1390): handleExpand pauses a
\* playing player, handleReduce plays a player that is not playing
toggleText ==
  /\ Idle
  /\ ~isLoading
  /\ currentMedia # None
  /\ IF isExpanded
     THEN IF isPlaying THEN NeitherCalled ELSE PlayCalled
     ELSE IF isPlaying THEN PauseCalled ELSE NeitherCalled
  /\ isExpanded' = ~isExpanded
  /\ UNCHANGED << playerVars, hashEvents, gestures, textVars, gridVars, feedVars, mediaList, autoplay,
                  isLoading, currentSec >>

\* the pointer leaves the media container (lines 1392-1397)
handleMouseLeave ==
  /\ Idle
  /\ isExpanded
  /\ ~isPlaying
  /\ PlayCalled
  /\ isExpanded' = FALSE
  /\ UNCHANGED << playerVars, hashEvents, gestures, textVars, gridVars, feedVars, mediaList, autoplay,
                  isLoading, currentSec >>

\* a pending image timeout expires and calls handleNext (lines 1298-1300).
\* The callback is a task of its own: it runs when the effects of the last
\* commit have run, and a queued hashchange is dispatched long before
TimerFire ==
  /\ Idle
  /\ hashEvents = 0
  /\ \E t \in BagToSet(timers) : timers' = timers (-) SetToBag({t})
  /\ currentMediaIndex' = NextIndex(currentMediaIndex)
  /\ dirty' = IF NextIndex(currentMediaIndex) # currentMediaIndex
              THEN {"currentMediaIndex"} ELSE {}
  /\ UNCHANGED << phase, hash, hashEvents, index, currentMedia, selectedMediaList,
                  listofMedia, loadedFeeds, loadingFeeds, inflight, gestures,
                  wanted, everLoaded >>
  /\ UNCHANGED << textVars, videoVars, gridVars, feedVars, mediaList >>
  /\ UNCHANGED << autoplay, isPlaying, imageTimerRef, isExpanded >>

\* the playback alone: the page opens without a fragment, with or without
\* autoplay; every request answers a full page of images or is rate limited;
\* the user plays, pauses, stops, skips and picks a feed
PlaybackOutcomes ==
  { Ok(MaxItems), Fail(429, "Request failed with status code 429") }

FetchSettlePlayback ==
  /\ Idle
  /\ \E ld \in BagToSet(inflight) : \E o \in PlaybackOutcomes : Settle(ld, o)

InitPlayback ==
  /\ InitPlayer
  /\ InitGrid(DefaultFeedUrls) /\ NoFetcher
  /\ hash.feed = ""
  /\ InitText
  /\ \E auto \in BOOLEAN : InitPlay(auto)

NextPlayback ==
  \/ Mount
  \/ FetchSettlePlayback
  \/ RunEffects
  \/ HashChangeEvent
  \/ handleNext
  \/ DropdownClick
  \/ handlePlayPause
  \/ stop
  \/ toggleText
  \/ handleMouseLeave
  \/ TimerFire

SpecPlayback == InitPlayback /\ [][NextPlayback]_vars

\* the slideshow on other feed tables: one feed of two URLs, the two feeds
\* of the other scenarios, and two feeds of which the first has three URLs
MediaLists ==
  { << [feed |-> "nasa", urls |-> 2] >>,
    DefaultMediaList,
    << [feed |-> "nasa", urls |-> 3], [feed |-> "seeclickfix-311", urls |-> 1] >> }

InitSlides ==
  /\ \E list \in MediaLists : InitPlayerWith(list)
  /\ InitGrid(DefaultFeedUrls) /\ NoFetcher
  /\ hash.feed = ""
  /\ InitText
  /\ \E auto \in BOOLEAN : InitPlay(auto)

SpecSlides == InitSlides /\ [][NextPlayback]_vars

\* the slideshow left to itself: autoplay, the page opens with any
\* fragment, every request answers a full page of images and the user does
\* nothing; every enabled step is taken eventually (a request answers, the
\* effects and the queued listeners run, a pending timeout expires)
FetchSettleImages ==
  /\ Idle
  /\ \E ld \in BagToSet(inflight) : Settle(ld, Ok(MaxItems))

InitSlideshow ==
  /\ \E list \in MediaLists : InitPlayerWith(list)
  /\ InitGrid(DefaultFeedUrls) /\ NoFetcher
  /\ InitText
  /\ InitPlay(TRUE)

NextSlideshow ==
  \/ Mount
  \/ FetchSettleImages
  \/ RunEffects
  \/ HashChangeEvent
  \/ TimerFire

SpecSlideshow ==
  /\ InitSlideshow
  /\ [][NextSlideshow]_vars
  /\ WF_vars(Mount)
  /\ WF_vars(FetchSettleImages)
  /\ WF_vars(RunEffects)
  /\ WF_vars(HashChangeEvent)
  /\ WF_vars(TimerFire)

\* the component is unmounted: the cleanups of its effects run, among them
\* clearTimeout(imageTimerRef.current) (line 1438) and the removal of the
\* hashchange listener (line 1031)
Unmount ==
  /\ Idle
  /\ phase' = "unmounted"
  /\ timers' = clearTimeout(timers, imageTimerRef)
  /\ video' = NewVideo
  /\ UNCHANGED << hash, hashEvents, index, currentMediaIndex, currentMedia,
                  selectedMediaList, listofMedia, loadedFeeds, loadingFeeds, inflight,
                  dirty, gestures, wanted, everLoaded >>
  /\ UNCHANGED << textVars, gridVars, feedVars, mediaList, isLoading, playPending, currentSec >>
  /\ UNCHANGED << autoplay, isPlaying, imageTimerRef, isExpanded >>

\* a request answers after the unmount: loadFeed and the continuation of its
\* caller run as they are written; the state setters of an unmounted
\* component store nothing, updateURLHash (line 1753) assigns the fragment
SettleUnmounted(ld, o) ==
  LET rest == inflight (-) SetToBag({ld})
      res  == fetchMediaFromAPI(ld.feed, ld.pos, o)
  IN  IF ld.pos < NumUrls(ld.feed)
      THEN /\ inflight' = rest (+) SetToBag({[ld EXCEPT !.pos = ld.pos + 1,
                                                        !.acc = MergeItems(ld.acc, res),
                                                        !.outs = Append(ld.outs, o),
                                                        !.parts = Append(ld.parts, res)]})
           /\ UNCHANGED hash
      ELSE /\ inflight' = rest
           /\ hash' = IF ld.caller = "dropdown" THEN updateURLHash(hash, ld.feed, 0)
                      ELSE hash

FetchSettleUnmounted ==
  /\ phase = "unmounted"
  /\ \E ld \in BagToSet(inflight) : \E o \in PlaybackOutcomes : SettleUnmounted(ld, o)
  /\ UNCHANGED << phase, hashEvents, index, currentMediaIndex, currentMedia,
                  selectedMediaList, listofMedia, loadedFeeds, loadingFeeds,
                  dirty, gestures, wanted, everLoaded >>
  /\ UNCHANGED << textVars, videoVars, gridVars, feedVars, mediaList >>
  /\ UNCHANGED playVars

\* ------------------------------------------------------------- the video element
\* handleEnded that leaves the flag alone
handleEndedKeepsFlag(i, playing) == [index |-> NextIndex(i), isPlaying |-> playing]

\* handleEnded (lines 1424-1428): setIsPlaying(false); handleNext()
handleEnded(i, playing) == [index |-> NextIndex(i), isPlaying |-> FALSE]

\* "ended" is dispatched to the n listeners of the element, one after the other
RECURSIVE dispatchEnded(_, _, _)
dispatchEnded(n, i, playing) ==
  IF n = 0 THEN [index |-> i, isPlaying |-> playing]
  ELSE dispatchEnded(n - 1, handleEnded(i, playing).index, handleEnded(i, playing).isPlaying)

\* the rest of the state a callback that only moves the index leaves alone
OnlyIndexMoves(i) ==
  /\ currentMediaIndex' = i
  /\ dirty' = IF i # currentMediaIndex THEN {"currentMediaIndex"} ELSE {}
  /\ UNCHANGED << phase, hash, hashEvents, index, currentMedia, selectedMediaList,
                  listofMedia, loadedFeeds, loadingFeeds, inflight, gestures,
                  wanted, everLoaded >>
  /\ UNCHANGED << textVars, gridVars, feedVars, mediaList >>

\* a play() promise of the element is fulfilled: the video plays, and play
\* goes on to setIsPlaying(true) (line 1259).  As for TimerFire, what the
\* element reports comes after the effects and the queued hashchange events
PlayResolve ==
  /\ Idle
  /\ hashEvents = 0
  /\ playPending > 0
  /\ VideoShown(currentMedia)
  /\ playPending' = playPending - 1
  /\ video' = [video EXCEPT !.playing = TRUE]
  /\ isPlaying' = TRUE
  /\ UNCHANGED << playerVars, hashEvents, gestures, textVars, gridVars, feedVars, mediaList, autoplay, timers,
                  imageTimerRef, isExpanded, isLoading, currentSec >>

\* a play() promise is rejected: the catch calls handleNext (lines 1261-1265)
PlayReject ==
  /\ Idle
  /\ hashEvents = 0
  /\ playPending > 0
  /\ playPending' = playPending - 1
  /\ OnlyIndexMoves(NextIndex(currentMediaIndex))
  /\ UNCHANGED << playVars, isLoading, video, currentSec >>

\* the video plays on
VideoProgress ==
  /\ Idle
  /\ hashEvents = 0
  /\ VideoShown(currentMedia)
  /\ video.playing
  /\ video.pos = 0
  /\ video' = [video EXCEPT !.pos = 1]
  /\ UNCHANGED << playerVars, hashEvents, gestures, textVars, gridVars, feedVars, mediaList, playVars,
                  isLoading, playPending, currentSec >>

\* the callback of the interval that runs while a video is playing (lines
\* 1399-1412)
TimeUpdate ==
  /\ Idle
  /\ hashEvents = 0
  /\ isPlaying
  /\ VideoShown(currentMedia)
  /\ currentSec # video.pos
  /\ currentSec' = video.pos
  /\ UNCHANGED << playerVars, hashEvents, gestures, textVars, gridVars, feedVars, mediaList, playVars,
                  isLoading, video, playPending >>

\* the video reaches its end: the element stops and dispatches "ended" to
\* its listeners, each handleEnded of lines 1424-1428
VideoEnded ==
  /\ Idle
  /\ hashEvents = 0
  /\ VideoShown(currentMedia)
  /\ video.playing
  /\ video.pos = 1
  /\ video' = [video EXCEPT !.playing = FALSE]
  /\ isPlaying' = dispatchEnded(video.ended, currentMediaIndex, isPlaying).isPlaying
  /\ OnlyIndexMoves(dispatchEnded(video.ended, currentMediaIndex, isPlaying).index)
  /\ UNCHANGED << autoplay, timers, imageTimerRef, isExpanded, isLoading, playPending,
                  currentSec >>

\* the player with videos: the page opens without a fragment, with or
\* without autoplay; the request of the default feed answers a page of
\* videos, a page of images, or is rate limited; the user plays, pauses,
\* stops, skips and opens the description
VideoOutcomes ==
  { OkVideo(MaxItems), Ok(MaxItems), Fail(429, "Request failed with status code 429") }

FetchSettleVideo ==
  /\ Idle
  /\ \E ld \in BagToSet(inflight) : \E o \in VideoOutcomes : Settle(ld, o)

NextVideo ==
  \/ Mount
  \/ FetchSettleVideo
  \/ RunEffects
  \/ HashChangeEvent
  \/ handleNext
  \/ handlePrev
  \/ toggleText
  \/ handlePlayPause
  \/ stop
  \/ PlayResolve
  \/ PlayReject
  \/ VideoProgress
  \/ TimeUpdate
  \/ VideoEnded
  \/ TimerFire

SpecVideo == InitPlayback /\ [][NextVideo]_vars

\* the player that is taken away: it mounts, loads, plays, and is unmounted
\* while requests may still be awaited
NextUnmount ==
  \/ Mount
  \/ FetchSettlePlayback
  \/ RunEffects
  \/ HashChangeEvent
  \/ DropdownClick
  \/ handlePlayPause
  \/ TimerFire
  \/ Unmount
  \/ FetchSettleUnmounted

SpecUnmount == InitPlayback /\ [][NextUnmount]_vars

\* the player with the default autoplay = false: the page opens without a
\* fragment; the user plays, pauses, stops and moves the cursor in every way
NextManual ==
  \/ Mount
  \/ FetchSettlePlayback
  \/ RunEffects
  \/ HashChangeEvent
  \/ handleNext
  \/ handlePrev
  \/ DropdownClick
  \/ ExternalHashChange
  \/ handlePlayPause
  \/ stop
  \/ toggleText
  \/ handleMouseLeave
  \/ TimerFire

SpecManual == InitLoader /\ [][NextManual]_vars

\* the router alone: the page opens without a fragment, the default feed is
\* loaded and the user navigates to fragments; every enabled step is taken eventually (the
\* event loop runs the queued listeners and effects, a request answers)
NextRouter ==
  \/ Mount
  \/ FetchSettle
  \/ RunEffects
  \/ HashChangeEvent
  \/ ExternalHashChange

SpecRouter ==
  /\ InitLoader
  /\ [][NextRouter]_vars
  /\ WF_vars(Mount)
  /\ WF_vars(FetchSettle)
  /\ WF_vars(RunEffects)
  /\ WF_vars(HashChangeEvent)

\* one action of the user on a page opened without a ref in the fragment:
\* every step of Next is possible and the event loop takes every enabled step
\* eventually
InitQuiet == Init /\ hash.ref = None

SpecQuiet ==
  /\ InitQuiet
  /\ [][Next]_vars
  /\ WF_vars(Mount)
  /\ WF_vars(FetchSettle)
  /\ WF_vars(RunEffects)
  /\ WF_vars(HashChangeEvent)

\* ------------------------------------------------------------- properties
InBounds(i, list) == 0 <= i /\ i < Len(list)

\* the call ld ends in this step with outcome o of its last URL
Ends(ld, o) == ld.pos = NumUrls(ld.feed) /\ Settle(ld, o)

\* C1: once the selected list is non-empty and the effects have run, the
\* current item index lies within the selected list
C1_CursorInBounds ==
  (phase = "mounted" /\ dirty = {} /\ Len(selectedMediaList) > 0)
    => InBounds(currentMediaIndex, selectedMediaList)

\* C2: from an index i inside the selected list of n items, next moves the
\* index to (i + 1) mod n and prev to (i - 1 + n) mod n
C2_NextPrevWrapOnList ==
  [][ LET n == Len(selectedMediaList)
          i == currentMediaIndex
      IN  (n > 0 /\ InBounds(i, selectedMediaList)) =>
            /\ handleNext => currentMediaIndex' = (i + 1) % n
            /\ handlePrev => currentMediaIndex' = (i - 1 + n) % n ]_vars

\* C3: a seek (a click on the progress bar at any ratio from 0 to 1, or on
\* one of its markers) leaves the index inside the selected list
C3_SeekInBounds ==
  [][ (handleProgressBarClick \/ ProgressPointClick)
        => InBounds(currentMediaIndex', selectedMediaList) ]_vars

\* the list of the feed selected most recently is the one displayed
ShowsWanted ==
  /\ wanted \in FeedKeys
  /\ index = FindFeed(wanted)
  /\ selectedMediaList # << >>
  /\ listofMedia[wanted] = Some(selectedMediaList)

\* C4: while the list of the most recently selected feed is displayed, the
\* late end of a load of another feed changes neither the selected list nor
\* the current item nor the cursor
C4_StaleLoadKeepsCursor ==
  [][ \A ld \in BagToSet(inflight) : \A o \in PlayerOutcomes :
        (ShowsWanted /\ ld.feed # wanted /\ Ends(ld, o))
          => UNCHANGED << selectedMediaList, currentMedia, currentMediaIndex, index >> ]_vars

\* what the fetches of the URLs that answered returned, in URL order
RECURSIVE SuccessfulParts(_, _)
SuccessfulParts(outs, parts) ==
  IF outs = << >> THEN << >>
  ELSE (IF Head(outs).ok THEN Head(parts) ELSE << >>)
         \o SuccessfulParts(Tail(outs), Tail(parts))

Failed(outs) == { u \in 1..Len(outs) : ~outs[u].ok }

\* C5: a load of a feed of N >= 2 URLs of which exactly one fails stores
\* exactly the items of the N - 1 fetches that answered
C5_PartialFailureDropsFailedUrl ==
  [][ \A ld \in BagToSet(inflight) : \A o \in Outcomes :
        LET outs  == Append(ld.outs, o)
            parts == Append(ld.parts, fetchMediaFromAPI(ld.feed, ld.pos, o))
        IN  (Ends(ld, o) /\ Len(outs) >= 2 /\ Cardinality(Failed(outs)) = 1)
              => listofMedia'[ld.feed] = Some(SuccessfulParts(outs, parts)) ]_vars

IsPlaceholder(item) == item.isError /\ item.url = NullUrl

\* C6: a load of which every URL fails, or whose fetches return no item,
\* stores exactly one placeholder item
C6_TotalFailureOnePlaceholder ==
  [][ \A ld \in BagToSet(inflight) : \A o \in Outcomes :
        LET outs  == Append(ld.outs, o)
            parts == Append(ld.parts, fetchMediaFromAPI(ld.feed, ld.pos, o))
        IN  (Ends(ld, o) /\ (Failed(outs) = 1..Len(outs) \/ SuccessfulParts(outs, parts) = << >>))
              => /\ listofMedia'[ld.feed] # None
                 /\ Len(listofMedia'[ld.feed][1]) = 1
                 /\ IsPlaceholder(listofMedia'[ld.feed][1][1]) ]_vars

\* the text of a placeholder agrees with the cause of the failure
TextByCause(item, o) ==
  /\ IsPlaceholder(item)
  /\ o.status = 429 => item.text = RateLimitMsg
  /\ o.status = 400 => item.text = BadRequestMsg
  /\ o.status \notin {429, 400} => item.text \notin {RateLimitMsg, BadRequestMsg}

Last(seq) == seq[Len(seq)]

\* C7: the placeholder of a failed fetch carries the rate-limit message for
\* a 429, the bad-request message for a 400 and another message for every
\* other failure, and the messages differ
C7_MessageByCause ==
  [][ /\ RateLimitMsg # BadRequestMsg
      /\ \A ld \in BagToSet(inflight') :
           (ld.outs # << >> /\ ~Last(ld.outs).ok) => TextByCause(Last(ld.acc), Last(ld.outs))
      /\ \A ld \in BagToSet(inflight) : \A o \in Failures :
           Ends(ld, o) => TextByCause(Last(listofMedia'[ld.feed][1]), o) ]_vars

\* a cached list holds the rate-limit placeholder and another one the
\* bad-request placeholder
C7_Witness ==
  /\ \E f \in FeedKeys :
       /\ listofMedia[f] # None
       /\ \E k \in 1..Len(listofMedia[f][1]) :
            listofMedia[f][1][k].isError /\ listofMedia[f][1][k].text = RateLimitMsg
  /\ \E f \in FeedKeys :
       /\ listofMedia[f] # None
       /\ \E k \in 1..Len(listofMedia[f][1]) :
            listofMedia[f][1][k].isError /\ listofMedia[f][1][k].text = BadRequestMsg

\* a call of loadFeed for feed f begins in this step
Begins(f) ==
  \E ld \in BagToSet(inflight') :
    /\ ld.feed = f
    /\ ld.pos = 1
    /\ CopiesIn(ld, inflight') > CopiesIn(ld, inflight)

\* C8: no request is issued for a feed a load has already stored a list for
C8_LoadedFeedNotRefetched ==
  [][ \A f \in FeedKeys : Begins(f) => f \notin everLoaded ]_vars

\* C9: a feed with a load in flight is reported as loading
C9_LoadingWhileInFlight ==
  \A ld \in BagToSet(inflight) : loadingFeeds[ld.feed]

\* C10: a feed recorded as loaded stays recorded as loaded
C10_LoadedIsMonotonic ==
  [][ loadedFeeds \subseteq loadedFeeds' ]_vars

\* C11: the end of a load of feed A leaves the stored list and the load
\* status of every other feed as they were
C11_LoadLeavesOtherFeeds ==
  [][ \A ld \in BagToSet(inflight) : \A o \in Outcomes :
        Ends(ld, o) =>
          \A g \in FeedKeys \ {ld.feed} :
            /\ listofMedia'[g] = listofMedia[g]
            /\ (g \in loadedFeeds') = (g \in loadedFeeds)
            /\ loadingFeeds'[g] = loadingFeeds[g] ]_vars

\* C12: a feed is marked loading as long as a load of it is in flight, and
\* the end of a load leaves the feed marked loaded and not loading
C12_LoadingThenLoaded ==
  [][ /\ \A ld \in BagToSet(inflight') : loadingFeeds'[ld.feed]
      /\ \A ld \in BagToSet(inflight) : \A o \in Outcomes :
           Ends(ld, o) => (ld.feed \in loadedFeeds' /\ ~loadingFeeds'[ld.feed]) ]_vars

\* the end of a load leaves the feed marked loaded and not loading
LoadEndsLoaded ==
  [][ \A ld \in BagToSet(inflight) : \A o \in Outcomes :
        Ends(ld, o) => (ld.feed \in loadedFeeds' /\ ~loadingFeeds'[ld.feed]) ]_vars

\* C15: the program writes the fragment only while the selected list is
\* not empty
C15_NoHashForEmptyList ==
  [][ (hash' # hash /\ ~ExternalHashChange) => Len(selectedMediaList') > 0 ]_vars

\* C16: a hashchange that names a loaded feed with a ref outside its list
\* adopts the feed with the cursor on index 0
C16_InvalidRefFallsBack ==
  [][ LET p == parseHash(hash)
          k == FindFeed(p.feed)
      IN  ( /\ HashChangeEvent
            /\ k # -1
            /\ listofMedia[p.feed] # None
            /\ Len(listofMedia[p.feed][1]) > 0
            /\ ~InBounds(p.ref, listofMedia[p.feed][1]) )
          => /\ index' = k
             /\ currentMediaIndex' = 0
             /\ selectedMediaList' = listofMedia[p.feed][1]
             /\ currentMedia' = At(selectedMediaList', 0) ]_vars

\* the user has navigated to #feed=K&ref=r and the hashchange is queued
Navigated(K, r) ==
  /\ gestures > 0
  /\ hashEvents > 0
  /\ hash.feed = K
  /\ hash.ref = Some(r)

\* the cursor is (K, r) on the list of K
CursorAt(K, r) ==
  /\ index = FindFeed(K)
  /\ currentMediaIndex = r
  /\ listofMedia[K] = Some(selectedMediaList)
  /\ currentMedia = At(selectedMediaList, r)

\* the list of K is stored and r is not an index of it
NoSuchItem(K, r) == listofMedia[K] # None /\ ~InBounds(r, listofMedia[K][1])

\* the feed keys of SpecRouter
DefaultFeedKeys == { DefaultMediaList[k].feed : k \in 1..Len(DefaultMediaList) }

\* C18: after the user navigates to #feed=K&ref=r, the cursor eventually
\* is (K, r) on the list of K, unless the list of K turns out not to have
\* an item r
C18_HashChangeAdopted ==
  \A K \in DefaultFeedKeys : \A r \in 0..MaxRef :
    Navigated(K, r) ~> (CursorAt(K, r) \/ NoSuchItem(K, r))

\* C13: what parseHash reads after updateURLHash(feed, ref) is feed and ref
C13_HashRoundTrip ==
  readBack # None =>
    readBack[1] = [feed |-> written[1].feed, ref |-> written[1].ref]

\* a key with a reserved character and a two-digit index were written to a
\* fragment that had other parameters, and read back
C13_Witness ==
  /\ readBack # None
  /\ \E i \in 1..Len(written[1].feed) : written[1].feed[i] \in Reserved
  /\ written[1].ref >= 10
  /\ written[1].before # << >>
  /\ readBack[1].feed = written[1].feed

\* the parameters of the fragment other than feed and ref
RECURSIVE Unrelated(_)
Unrelated(params) ==
  IF params = << >> THEN << >>
  ELSE (IF Head(params).name \in {FeedName, RefName} THEN << >> ELSE << Head(params) >>)
         \o Unrelated(Tail(params))

UnrelatedParams(frag) == Unrelated(URLSearchParams(AfterHashSign(frag)))

\* C14: a write of the fragment by the program keeps the parameters other
\* than feed and ref, with their values
C14_OtherParamsSurvive ==
  [][ (fragment' # fragment /\ ~CardNavigate)
        => UnrelatedParams(fragment') = UnrelatedParams(fragment) ]_vars

\* the feed parameter of the fragment, None when absent
FeedParam(frag) == ParamsGet(URLSearchParams(AfterHashSign(frag)), FeedName)

IsFeedKey(key) == \E k \in 1..Len(feedKeys) : feedKeys[k] = key

\* C17: the mount adopts the feed parameter and leaves the fragment alone
\* when the parameter is a configured key; otherwise it adopts the first
\* key and writes it to the fragment
C17_MountAdoptsFeed ==
  [][ CardMount =>
        IF FeedParam(fragment) # None /\ IsFeedKey(FeedParam(fragment)[1])
        THEN activeFeed' = FeedParam(fragment) /\ fragment' = fragment
        ELSE activeFeed' = Some(feedKeys[1]) /\ FeedParam(fragment') = Some(feedKeys[1]) ]_vars

ShowingImage == currentMedia # None /\ isImageFile(currentMedia[1].url)

\* C20: play on an image, from the button or from the autoplay effect, sets
\* the player to playing and leaves exactly one countdown pending, of the
\* image duration and for the current item; a countdown that expires is
\* gone and has applied advance-next once
C20_PlayImageCountsDown ==
  [][ /\ (handlePlayPause /\ ~isPlaying /\ ShowingImage)
           => /\ isPlaying'
              /\ timers' = SetToBag({[item |-> currentMedia, delay |-> imageDuration]})
      /\ (RunEffects /\ autoplay /\ ShowingImage
            /\ dirty \cap {"currentMedia", "currentMediaIndex", "listofMedia"} # {})
           => /\ isPlaying'
              /\ timers' = SetToBag({[item |-> currentMedia, delay |-> imageDuration]})
      /\ TimerFire
           => /\ timers' = EmptyBag
              /\ currentMediaIndex' = NextIndex(currentMediaIndex) ]_vars

\* without autoplay, the play button was pressed on an image: the player
\* plays and the countdown of the image is pending
C20_Witness ==
  /\ Idle
  /\ ~autoplay
  /\ isPlaying
  /\ ShowingImage
  /\ timers = SetToBag({Timer(currentMedia)})

\* the cursor: the feed, the index in its list, and what they select
cursor == << index, currentMediaIndex, selectedMediaList, currentMedia >>

\* a step that invokes play: the button while not playing, or the reset
\* effect under autoplay
PlayInvoked ==
  \/ handlePlayPause /\ ~isPlaying
  \/ toggleText /\ isExpanded /\ ~isPlaying
  \/ handleMouseLeave
  \/ /\ RunEffects
     /\ autoplay
     /\ dirty \cap {"currentMedia", "currentMediaIndex", "listofMedia"} # {}

CursorChanged ==
  dirty \cap {"index", "currentMediaIndex", "currentMedia", "selectedMediaList"} # {}

\* without autoplay, when the effects of a change of the cursor have run the
\* player is not playing and no countdown is pending
CursorChangeStopsPlayback ==
  [][ ~autoplay =>
        ((RunEffects /\ CursorChanged /\ Idle') => ~isPlaying' /\ timers' = EmptyBag) ]_vars

\* C24: without autoplay, when the effects of a change of the cursor have
\* run the player is not playing and no countdown is pending; only the play
\* button sets the player to playing or installs a countdown
C24_NoPlaybackWithoutPlay ==
  [][ ~autoplay =>
        /\ (RunEffects /\ CursorChanged /\ Idle')
             => ~isPlaying' /\ timers' = EmptyBag
        /\ (~isPlaying /\ isPlaying') => handlePlayPause
        /\ (timers = EmptyBag /\ timers' # EmptyBag) => handlePlayPause ]_vars

\* the cursor is at index 0 of the list `list` of the feed of position idx,
\* and the fragment names that feed and ref 0
SelectedAtZero(idx, list) ==
  /\ index' = idx
  /\ currentMediaIndex' = 0
  /\ selectedMediaList' = list
  /\ currentMedia' = At(list, 0)
  /\ hash'.feed = mediaList[idx + 1].feed
  /\ hash'.ref = Some(0)

\* the load ld started by the dropdown ends with this step
DropdownLoadEnds(ld) ==
  /\ ld \in BagToSet(inflight)
  /\ ld.caller = "dropdown"
  /\ \E o \in Outcomes : Ends(ld, o)

componentState ==
  << index, currentMediaIndex, currentMedia, selectedMediaList, listofMedia,
     loadedFeeds, loadingFeeds, isPlaying, isExpanded >>

\* the unmount leaves no countdown pending; afterwards no hashchange is
\* handled, no countdown expires and no state of the component changes
UnmountedStateIsFrozen ==
  [][ /\ Unmount => timers' = EmptyBag
      /\ phase = "unmounted"
           => ~HashChangeEvent /\ ~TimerFire /\ UNCHANGED componentState ]_vars

\* C26: the unmount leaves no countdown pending; afterwards no hashchange is
\* handled, no countdown expires, and the completion of a fetch is dropped:
\* it changes neither the state of the component nor the fragment
C26_UnmountDropsCompletions ==
  [][ /\ Unmount => timers' = EmptyBag
      /\ phase = "unmounted"
           => /\ ~HashChangeEvent
              /\ ~TimerFire
              /\ UNCHANGED componentState
              /\ UNCHANGED hash ]_vars

\* the non-empty pipe-segments of a specification string, trimmed
Segments(spec) == trimmedSegments(Split(spec, "|"))

\* the key a segment names: the explicit key of key=url, or the detected
\* source kind of a bare url
SegmentKey(seg) ==
  IF Includes(seg, << "=" >>) THEN trim(Split(seg, "=")[1]) ELSE detectFeedType(seg)

SegmentKeys(spec) == [i \in 1..Len(Segments(spec)) |-> SegmentKey(Segments(spec)[i])]

\* a valid specification string: it has a segment, a segment with "=" has
\* one "=" between a key and a URL that are not empty, and no two segments
\* name the same key
ValidSpec(spec) ==
  /\ Segments(spec) # << >>
  /\ \A i \in 1..Len(Segments(spec)) :
       LET seg == Segments(spec)[i]
       IN  Includes(seg, << "=" >>) =>
             /\ Len(Split(seg, "=")) = 2
             /\ trim(Split(seg, "=")[1]) # << >>
             /\ trim(Split(seg, "=")[2]) # << >>
  /\ \A i, j \in 1..Len(Segments(spec)) :
       i # j => SegmentKeys(spec)[i] # SegmentKeys(spec)[j]

\* C28: for a valid specification string the keys of the parsed feed map
\* are the keys its non-empty segments name, one per segment, in the order
\* of the segments
C28_OneKeyPerSegment ==
  (parsed # None /\ ValidSpec(feedUrls))
    => ObjectKeys(parsed[1].map) = SegmentKeys(feedUrls)

\* the URL is already in an accepted export form
AcceptedForm(url) == Includes(url, PubForm) \/ Includes(url, GvizForm)

\* the URL has a /d/<id> segment with an id
HasSheetId(url) == matchSheetId(url) # None /\ matchSheetId(url)[1] # << >>

\* C30: whichever card grid fetches it, a spreadsheet URL in an accepted
\* export form is asked for unchanged, any other with a /d/<id> segment is
\* asked for as the gviz CSV URL of that id, and one without an id unchanged
C30_SheetUrlNormalized ==
  (parsed # None /\ detectFeedType(feedUrls) = googlesheet) =>
    /\ AcceptedForm(feedUrls) => parsed[1].url = feedUrls
    /\ (~AcceptedForm(feedUrls) /\ HasSheetId(feedUrls))
         => parsed[1].url = gvizCsvUrl(matchSheetId(feedUrls)[1])
    /\ (~AcceptedForm(feedUrls) /\ ~HasSheetId(feedUrls)) => parsed[1].url = feedUrls

\* C27: when the load of the feed the user has moved to succeeds, its items
\* are what the card grid shows, whatever failed before
C27_SuccessReplacesFailure ==
  [][ \A p \in BagToSet(pending) :
        (CardSettle(p, "items") /\ activeFeed = Some(p.feed))
          => (Rendered' = "cards" /\ feeds' = Some(p.feed)) ]_vars

\* C29: once the card grid has mounted with a specification string without
\* a non-empty segment, the feed map is empty, nothing is fetched, and the
\* grid has left loading and shows an error
C29_EmptySpecShowsError ==
  (cardMounted /\ Segments(feedUrls) = << >>)
    => (feedKeys = << >> /\ pending = EmptyBag /\ Rendered = "error")

C23_EndedAdvancesOnce ==
  [][ /\ (Idle /\ VideoShown(currentMedia)) => (timers = EmptyBag /\ ~TimerFire)
      /\ VideoEnded => /\ currentMediaIndex' = NextIndex(currentMediaIndex)
                       /\ ~isPlaying' ]_vars

\* a playing video has ended: the element stopped at its end, the player is
\* not playing and the index has moved
C23_Witness ==
  /\ VideoShown(currentMedia)
  /\ video = [playing |-> FALSE, pos |-> 1, ended |-> 1]
  /\ ~isPlaying
  /\ dirty = {"currentMediaIndex"}

\* ------------------------------------------------------------- C31
\* an item of a mapped response is the placeholder of a failure
IsFailureItem(it) == "isError" \in DOMAIN it /\ it.isError

\* the list `out` is the response `data` item by item: as many items, none a
\* placeholder, and every field of item k undefined, a default the code
\* writes out, or a field of raw item k
Normalized(data, out) ==
  /\ Len(out) = Len(data)
  /\ \A k \in 1..Len(out) :
       /\ ~IsFailureItem(out[k])
       /\ \A f \in DOMAIN out[k] \ {"isError"} :
            out[k][f] = None \/ out[k][f][1].of \in { << 0, 0 >>, data[k].id }

\* C31: every adapter maps a response item by item, whatever fields the
\* items are missing: no error is raised, a missing field becomes an empty
\* or null default, and no item of the response is lost
C31_BareItemNormalized ==
  [][ (AdaptContext \/ AdaptAll \/ AdaptList)
        => Normalized(responses[1].data[1], items') ]_vars

\* ------------------------------------------------------------- C32
\* the positions of the issues of a response that have an image
ImagePositions(data) ==
  { k \in 1..Len(data) :
      "media" \in data[k].has
        /\ {"image_full", "representative_image_url"} \cap data[k].has # {} }

\* the first n issues with an image, in response order
FirstImages(data, n) ==
  LET P      == ImagePositions(data)
      kth(j) == CHOOSE k \in P : Cardinality({ m \in P : m <= k }) = j
  IN  [j \in 1..(IF Cardinality(P) < n THEN Cardinality(P) ELSE n) |-> data[kth(j)]]

C37_MergedInSpecOrder ==
  (cardMounted /\ ~loading)
    => items = Flat([u \in 1..Len(responses) |-> contribution(fetcher, responses[u])])

\* the card grid has merged two answers of which the second arrived first
C37_Witness ==
  /\ cardMounted /\ ~loading /\ error = None
  /\ fetcher = << "grid" >>
  /\ settled = << 2, 1 >>
  /\ \A u \in 1..2 : contribution(fetcher, responses[u]) # << >>
  /\ Len(items) = Len(results[1][1]) + Len(results[2][1])

\* ------------------------------------------------------------- C33
\* C33: once the effects have run, a player that reports playing on an
\* image has a countdown pending, whatever the table of configured feeds
C33_PlayingImageHasTimer ==
  (Idle /\ isPlaying /\ currentMedia # None /\ isImageFile(currentMedia[1].url))
    => timers # EmptyBag

\* ------------------------------------------------------------- C38
\* item j of the selected list is showing and nothing is being loaded
ShowingSlide(j) ==
  /\ Idle
  /\ inflight = EmptyBag
  /\ j < Len(selectedMediaList)
  /\ currentMediaIndex = j
  /\ currentMedia = At(selectedMediaList, j)

\* the item after item j of the selected list is showing, item 0 after the last
ShowingSlideAfter(j) ==
  /\ j < Len(selectedMediaList)
  /\ currentMediaIndex = (j + 1) % Len(selectedMediaList)
  /\ currentMedia = At(selectedMediaList, (j + 1) % Len(selectedMediaList))

\* C38: with autoplay and a list of images, every item that is showing is
\* followed by the next item of the selected list, the last one by item 0
C38_SlideshowNeverStalls ==
  \A j \in 0..MaxRef : ShowingSlide(j) ~> ShowingSlideAfter(j)

\* nothing is queued and no request is out: no effect to run, no hashchange
\* event to deliver, no loadFeed in flight
Quiescent == Idle /\ hashEvents = 0 /\ inflight = EmptyBag

\* the fragment names the cursor's feed and index, and the selected list is
\* the list stored for that feed
FragmentAgrees ==
  /\ hash.feed = mediaList[index + 1].feed
  /\ hash.ref = Some(currentMediaIndex)
  /\ listofMedia[hash.feed] = Some(selectedMediaList)

\* C34: after the user's action (next, prev, seek, feed selection, external
\* hash edit) and the answers to all requests, the hash writer and the
\* hashchange listener come to rest in a state where the fragment's feed and
\* ref are the cursor's feed and index and the selected list is that feed's
C34_FragmentFollowsCursor == (gestures > 0) ~> (Quiescent /\ FragmentAgrees)

\* C35: once every request of the card grid has settled and no hashchange
\* event is queued, the cards shown are the items fetched for the active
\* feed, in whatever order the requests were answered
C35_ShowsActiveFeed ==
  (cardMounted /\ pending = EmptyBag /\ hashEvents = 0 /\ Rendered = "cards")
    => feeds = activeFeed

\* C36: the active feed of the card grid is null or a key of the feed map
\* after every step, and a selection in the dropdown leaves it alone (the
\* hashchange event the selection causes changes it)
C36_ActiveFeedConfigured ==
  [][ /\ activeFeed' # None => IsFeedKey(activeFeed'[1])
      /\ handleFeedChange => activeFeed' = activeFeed ]_vars

====
